---------------------------- MODULE Spec2Model ----------------------------
(***************************************************************************)
(* A model of the const validator of librustc_mir/transform/check_consts:  *)
(*   qualifs.rs     the Qualif trait (HasMutInterior, NeedsDrop) and its   *)
(*                  structural recursion over places, operands, rvalues;   *)
(*   validation.rs  the Qualifs cursor aggregator and the Validator        *)
(*                  visitor (check_body, check_op_spanned, the visits).    *)
(* The MIR body, the item and the answers of the type system are inputs.   *)
(***************************************************************************)
EXTENDS Integers, Sequences, FiniteSets, TLC

(***************************************************************************)
(* Bounds of the model (not program constants).                            *)
(***************************************************************************)
\* longest projection of a place handed to the qualif functions
MaxProj == 2
\* most statements of a body the cursors are queried on, and of a body of
\* filler statements the validator walks
MaxStmts == 3

(***************************************************************************)
(* Types (rustc::ty::Ty), as far as the validator looks at them.           *)
(***************************************************************************)
TInt == [k |-> "Int"]
TAdt(n) == [k |-> "Adt", name |-> n]
TRef(t) == [k |-> "Ref", of |-> t]
TRawPtr(t) == [k |-> "RawPtr", of |-> t]
TArray(t) == [k |-> "Array", of |-> t]
TSlice(t) == [k |-> "Slice", of |-> t]
TBox(t) == [k |-> "Box", of |-> t]

\* The ADTs of the model: UnsafeCell<i32> (the unsafe_cell lang item), a
\* struct with a Drop impl, a plain struct of both, a union and an enum.
AdtNames == {"UnsafeCell", "Droppy", "Pair", "Union", "Enum"}

AdtDef(n) ==
    CASE n = "UnsafeCell" -> [unsafe_cell |-> TRUE, has_dtor |-> FALSE, is_union |-> FALSE,
                              is_enum |-> FALSE, fields |-> <<TInt>>]
      [] n = "Droppy" -> [unsafe_cell |-> FALSE, has_dtor |-> TRUE, is_union |-> FALSE,
                          is_enum |-> FALSE, fields |-> <<TInt>>]
      [] n = "Pair" -> [unsafe_cell |-> FALSE, has_dtor |-> FALSE, is_union |-> FALSE,
                        is_enum |-> FALSE,
                        fields |-> <<TAdt("UnsafeCell"), TAdt("Droppy")>>]
      [] n = "Union" -> [unsafe_cell |-> FALSE, has_dtor |-> FALSE, is_union |-> TRUE,
                         is_enum |-> FALSE, fields |-> <<TInt, TInt>>]
      [] n = "Enum" -> [unsafe_cell |-> FALSE, has_dtor |-> FALSE, is_union |-> FALSE,
                        is_enum |-> TRUE, fields |-> <<TAdt("Droppy")>>]

RECURSIVE is_freeze(_)
\* ty.is_freeze: no UnsafeCell is reachable without an indirection.
is_freeze(ty) ==
    CASE ty.k \in {"Array", "Slice"} -> is_freeze(ty.of)
      [] ty.k = "Adt" ->
            /\ ~AdtDef(ty.name).unsafe_cell
            /\ \A i \in DOMAIN AdtDef(ty.name).fields : is_freeze(AdtDef(ty.name).fields[i])
      [] OTHER -> TRUE

RECURSIVE needs_drop(_)
\* ty.needs_drop: dropping a value of the type runs some destructor.
needs_drop(ty) ==
    CASE ty.k \in {"Array", "Slice"} -> needs_drop(ty.of)
      [] ty.k = "Box" -> TRUE
      [] ty.k = "Adt" ->
            /\ ~AdtDef(ty.name).is_union
            /\ \/ AdtDef(ty.name).has_dtor
               \/ \E i \in DOMAIN AdtDef(ty.name).fields : needs_drop(AdtDef(ty.name).fields[i])
      [] OTHER -> FALSE

(***************************************************************************)
(* Places: a local and a projection (PlaceRef with a local base; a static  *)
(* base only occurs in promoted MIR, where the code calls bug!()).         *)
(***************************************************************************)
Deref == [e |-> "Deref"]
Field(t) == [e |-> "Field", ty |-> t]
Index(l) == [e |-> "Index", local |-> l]
ConstantIndex == [e |-> "ConstantIndex"]
Subslice == [e |-> "Subslice"]
Downcast == [e |-> "Downcast"]

Place(l, p) == [local |-> l, projection |-> p]
Bare(l) == Place(l, <<>>)

\* PlaceTy::projection_ty
projection_ty(ty, elem) ==
    CASE elem.e = "Deref" -> ty.of
      [] elem.e \in {"Index", "ConstantIndex"} -> ty.of
      [] elem.e = "Field" -> elem.ty
      [] OTHER -> ty

RECURSIVE ty_from(_, _, _)
\* Place::ty_from(base, projection, body, tcx).ty
ty_from(decls, l, proj) ==
    IF proj = <<>> THEN decls[l + 1].ty
    ELSE projection_ty(ty_from(decls, l, SubSeq(proj, 1, Len(proj) - 1)), proj[Len(proj)])

place_ty(decls, place) == ty_from(decls, place.local, place.projection)

(***************************************************************************)
(* Operands, constants and rvalues.                                        *)
(***************************************************************************)
Copy(pl) == [o |-> "Copy", place |-> pl]
Move(pl) == [o |-> "Move", place |-> pl]
\* a literal: neither a pointer to a static nor an unevaluated constant
Lit(t) == [o |-> "Constant", c |-> "Lit", ty |-> t]
\* constant.check_static_ptr(tcx) = Some(def_id): a pointer of type t to a
\* static whose declared type (tcx.type_of(def_id)) is st
StaticPtr(t, st, tl) ==
    [o |-> "Constant", c |-> "StaticPtr", ty |-> t, static_ty |-> st, thread_local |-> tl]
\* ty::ConstKind::Unevaluated(def_id, _): tr says whether def_id is an item
\* of a trait, q is mir_const_qualif(def_id)
Unevaluated(t, tr, q) ==
    [o |-> "Constant", c |-> "Unevaluated", ty |-> t, trait_item |-> tr, qualifs |-> q]

ConstQualifs(hmi, nd) == [has_mut_interior |-> hmi, needs_drop |-> nd]

operand_ty(decls, operand) ==
    IF operand.o = "Constant" THEN operand.ty ELSE place_ty(decls, operand.place)

Use(op) == [rv |-> "Use", operand |-> op]
Repeat(op) == [rv |-> "Repeat", operand |-> op]
Ref(bk, pl) == [rv |-> "Ref", kind |-> bk, place |-> pl]
RvLen(pl) == [rv |-> "Len", place |-> pl]
Discriminant(pl) == [rv |-> "Discriminant", place |-> pl]
Cast(ck, op, t) == [rv |-> "Cast", cast_kind |-> ck, operand |-> op, ty |-> t]
BinaryOp(b, l, r) == [rv |-> "BinaryOp", op |-> b, lhs |-> l, rhs |-> r]
CheckedBinaryOp(b, l, r) == [rv |-> "CheckedBinaryOp", op |-> b, lhs |-> l, rhs |-> r]
UnaryOp(u, op) == [rv |-> "UnaryOp", op |-> u, operand |-> op]
NullaryOp(n, t) == [rv |-> "NullaryOp", op |-> n, ty |-> t]
\* AggregateKind::Adt(def, ..) with def named adt, or AggregateKind::Array
\* (adt = "") of element type t
Aggregate(adt, t, ops) == [rv |-> "Aggregate", adt |-> adt, ty |-> t, operands |-> ops]

\* Rvalue::ty
rvalue_ty(decls, rvalue) ==
    CASE rvalue.rv \in {"Use", "UnaryOp"} -> operand_ty(decls, rvalue.operand)
      [] rvalue.rv = "Repeat" -> TArray(operand_ty(decls, rvalue.operand))
      [] rvalue.rv = "Ref" -> TRef(place_ty(decls, rvalue.place))
      [] rvalue.rv \in {"Len", "Discriminant", "BinaryOp", "CheckedBinaryOp"} -> TInt
      [] rvalue.rv = "Cast" -> rvalue.ty
      [] rvalue.rv = "NullaryOp" -> IF rvalue.op = "Box" THEN TBox(rvalue.ty) ELSE TInt
      [] rvalue.rv = "Aggregate" -> rvalue.ty

(***************************************************************************)
(* qualifs.rs: the Qualif trait.  Q is "HasMutInterior" or "NeedsDrop";    *)
(* cx is the local_decls of the body; per_local is the set of the locals   *)
(* for which the per-local predicate answers true.                         *)
(***************************************************************************)
Qualifs == {"HasMutInterior", "NeedsDrop"}

\* no qualif is cleared on move (the default of the trait)
IS_CLEARED_ON_MOVE_default(Q) == FALSE

IS_CLEARED_ON_MOVE(Q) == Q = "NeedsDrop"

in_qualifs(Q, qualifs) ==
    IF Q = "HasMutInterior" THEN qualifs.has_mut_interior ELSE qualifs.needs_drop

in_any_value_of_ty(Q, ty) ==
    IF Q = "HasMutInterior" THEN ~is_freeze(ty) ELSE needs_drop(ty)

in_static(Q, static_ty) == in_any_value_of_ty(Q, static_ty)

RECURSIVE in_place(_, _, _, _)
RECURSIVE in_projection_structurally(_, _, _, _)
\* the projection rule without the local of an Index
in_projection_structurally_no_index(Q, cx, per_local, place) ==
    LET n == Len(place.projection)
        proj_base == SubSeq(place.projection, 1, n - 1)
    IN  /\ in_place(Q, cx, per_local, Place(place.local, proj_base))
        /\ in_any_value_of_ty(Q, projection_ty(ty_from(cx, place.local, proj_base),
                                               place.projection[n]))

in_projection_structurally(Q, cx, per_local, place) ==
    LET n == Len(place.projection)
        proj_base == SubSeq(place.projection, 1, n - 1)
        elem == place.projection[n]
        base_qualif == in_place(Q, cx, per_local, Place(place.local, proj_base))
        qualif == base_qualif
                    /\ in_any_value_of_ty(Q,
                         projection_ty(ty_from(cx, place.local, proj_base), elem))
    IN  IF elem.e = "Index" THEN qualif \/ elem.local \in per_local ELSE qualif

in_projection(Q, cx, per_local, place) ==
    in_projection_structurally(Q, cx, per_local, place)

in_place(Q, cx, per_local, place) ==
    IF place.projection = <<>> THEN place.local \in per_local
    ELSE in_projection(Q, cx, per_local, place)

in_operand(Q, cx, per_local, operand) ==
    CASE operand.o \in {"Copy", "Move"} -> in_place(Q, cx, per_local, operand.place)
      [] operand.c = "StaticPtr" -> in_static(Q, operand.static_ty)
      [] operand.c = "Unevaluated" ->
            IF operand.trait_item THEN in_any_value_of_ty(Q, operand.ty)
            ELSE in_qualifs(Q, operand.qualifs) /\ in_any_value_of_ty(Q, operand.ty)
      [] OTHER -> FALSE

\* in_rvalue_structurally without the special case of a reborrow
in_rvalue_structurally_no_reborrow(Q, cx, per_local, rvalue) ==
    CASE rvalue.rv = "NullaryOp" -> FALSE
      [] rvalue.rv \in {"Discriminant", "Len", "Ref"} ->
            in_place(Q, cx, per_local, rvalue.place)
      [] rvalue.rv \in {"Use", "Repeat", "UnaryOp", "Cast"} ->
            in_operand(Q, cx, per_local, rvalue.operand)
      [] rvalue.rv \in {"BinaryOp", "CheckedBinaryOp"} ->
            in_operand(Q, cx, per_local, rvalue.lhs) \/ in_operand(Q, cx, per_local, rvalue.rhs)
      [] rvalue.rv = "Aggregate" ->
            \E i \in DOMAIN rvalue.operands : in_operand(Q, cx, per_local, rvalue.operands[i])

in_rvalue_structurally(Q, cx, per_local, rvalue) ==
    CASE rvalue.rv = "NullaryOp" -> FALSE
      [] rvalue.rv \in {"Discriminant", "Len"} -> in_place(Q, cx, per_local, rvalue.place)
      [] rvalue.rv \in {"Use", "Repeat", "UnaryOp", "Cast"} ->
            in_operand(Q, cx, per_local, rvalue.operand)
      [] rvalue.rv \in {"BinaryOp", "CheckedBinaryOp"} ->
            in_operand(Q, cx, per_local, rvalue.lhs) \/ in_operand(Q, cx, per_local, rvalue.rhs)
      [] rvalue.rv = "Ref" ->
            LET proj == rvalue.place.projection
                n == Len(proj)
                proj_base == SubSeq(proj, 1, n - 1)
            IN  IF /\ n > 0
                   /\ proj[n] = Deref
                   /\ ty_from(cx, rvalue.place.local, proj_base).k = "Ref"
                THEN in_place(Q, cx, per_local, Place(rvalue.place.local, proj_base))
                ELSE in_place(Q, cx, per_local, rvalue.place)
      [] rvalue.rv = "Aggregate" ->
            \E i \in DOMAIN rvalue.operands : in_operand(Q, cx, per_local, rvalue.operands[i])

\* HasMutInterior::in_rvalue and NeedsDrop::in_rvalue
in_rvalue(Q, cx, per_local, rvalue) ==
    IF /\ rvalue.rv = "Aggregate"
       /\ rvalue.adt \in AdtNames
       /\ IF Q = "HasMutInterior" THEN AdtDef(rvalue.adt).unsafe_cell
          ELSE AdtDef(rvalue.adt).has_dtor
    THEN TRUE
    ELSE in_rvalue_structurally(Q, cx, per_local, rvalue)

in_call(Q, cx, per_local, callee, args, return_ty) == in_any_value_of_ty(Q, return_ty)

(***************************************************************************)
(* The inputs of the model: the local declarations every body shares (but  *)
(* for the return type), and the well-typed places, operands and rvalues   *)
(* over them.                                                              *)
(***************************************************************************)
Decl(t) == [ty |-> t, static_ref |-> FALSE, thread_local |-> FALSE]
\* LocalInfo::StaticRef { def_id, .. }: a compiler-made pointer to a named
\* static; tl is tcx.has_attr(def_id, sym::thread_local)
StaticRefDecl(t, tl) == [ty |-> t, static_ref |-> TRUE, thread_local |-> tl]

RETURN_PLACE == 0

\* local_decls, local l at index l + 1
Decls(ret_ty) ==
    << Decl(ret_ty),                          \* _0, the return place
       Decl(TAdt("UnsafeCell")),              \* _1
       Decl(TAdt("Droppy")),                  \* _2
       Decl(TRef(TAdt("UnsafeCell"))),        \* _3
       Decl(TRawPtr(TAdt("UnsafeCell"))),     \* _4
       Decl(TArray(TAdt("Pair"))),            \* _5
       Decl(TInt),                            \* _6, an index
       Decl(TAdt("Union")),                   \* _7
       Decl(TAdt("Enum")),                    \* _8
       StaticRefDecl(TRawPtr(TAdt("Droppy")), FALSE), \* _9, to a static mut
       Decl(TRef(TRef(TAdt("Pair")))),        \* _10
       Decl(TRef(TAdt("Droppy"))),            \* _11
       StaticRefDecl(TRawPtr(TInt), TRUE),    \* _12, to a thread-local static
       Decl(TArray(TInt)),                    \* _13
       Decl(TRef(TArray(TInt))),              \* _14
       Decl(TRef(TSlice(TInt))),              \* _15
       Decl(TBox(TInt))                       \* _16
    >>

Locals(decls) == 0 .. Len(decls) - 1

RetTys == {TInt, TAdt("UnsafeCell"), TAdt("Droppy")}

\* the projection elements that apply to a place of type ty
ElemsFor(decls, ty) ==
    CASE ty.k \in {"Ref", "RawPtr"} -> {Deref}
      [] ty.k \in {"Array", "Slice"} ->
            {ConstantIndex, Subslice}
              \cup {Index(l) : l \in {x \in Locals(decls) : decls[x + 1].ty = TInt}}
      [] ty.k = "Adt" ->
            IF AdtDef(ty.name).is_enum THEN {Downcast}
            ELSE {Field(AdtDef(ty.name).fields[i]) : i \in DOMAIN AdtDef(ty.name).fields}
      [] OTHER -> {}

RECURSIVE PlacesUpTo(_, _)
PlacesUpTo(decls, d) ==
    IF d = 0 THEN {Bare(l) : l \in Locals(decls)}
    ELSE LET shorter == PlacesUpTo(decls, d - 1)
         IN  shorter \cup
               UNION {{Place(pl.local, Append(pl.projection, e)) :
                         e \in ElemsFor(decls, place_ty(decls, pl))} : pl \in shorter}

QDecls == Decls(TInt)
QPlaces == PlacesUpTo(QDecls, MaxProj)

QConstants ==
    {Lit(TInt), StaticPtr(TRef(TAdt("UnsafeCell")), TAdt("UnsafeCell"), FALSE),
     StaticPtr(TRawPtr(TAdt("Droppy")), TAdt("Droppy"), FALSE)}
      \cup {Unevaluated(t, tr, ConstQualifs(h, n)) :
              t \in {TInt, TAdt("Pair")}, tr \in BOOLEAN, h \in BOOLEAN, n \in BOOLEAN}

QOperands == {Copy(pl) : pl \in QPlaces} \cup {Move(pl) : pl \in QPlaces} \cup QConstants

OperandsOfTy(t) == {op \in QOperands : operand_ty(QDecls, op) = t}

\* the operands of an aggregate, one per field of the ADT
AdtOperands(adt) ==
    LET fs == AdtDef(adt).fields
    IN  {ops \in [DOMAIN fs -> QOperands] :
           \A i \in DOMAIN fs : operand_ty(QDecls, ops[i]) = fs[i]}

QRvalues ==
    {Use(op) : op \in QOperands}
      \cup {Repeat(op) : op \in QOperands}
      \cup {Ref(bk, pl) : bk \in {"Shared", "Mut"}, pl \in QPlaces}
      \cup {RvLen(pl) : pl \in {x \in QPlaces : place_ty(QDecls, x).k \in {"Array", "Slice"}}}
      \cup {Discriminant(pl) : pl \in {x \in QPlaces : place_ty(QDecls, x) = TAdt("Enum")}}
      \cup {Cast("Misc", op, TInt) :
              op \in {x \in QOperands : operand_ty(QDecls, x).k \in {"Int", "RawPtr"}}}
      \cup {UnaryOp("Neg", op) : op \in OperandsOfTy(TInt)}
      \cup {BinaryOp("Add", l, Lit(TInt)) : l \in OperandsOfTy(TInt)}
      \cup {CheckedBinaryOp("Add", Lit(TInt), r) : r \in OperandsOfTy(TInt)}
      \cup {NullaryOp(n, t) : n \in {"Box", "SizeOf"}, t \in {TInt, TAdt("Droppy")}}
      \cup UNION {{Aggregate(adt, TAdt(adt), ops) : ops \in AdtOperands(adt)} :
                    adt \in {"UnsafeCell", "Droppy", "Pair"}}
      \cup {Aggregate("", TArray(TAdt("UnsafeCell")), <<op, op>>) :
              op \in OperandsOfTy(TAdt("UnsafeCell"))}

\* the locals a place, an operand or an rvalue reads
PlaceLocals(pl) ==
    {pl.local} \cup {pl.projection[i].local :
                       i \in {j \in DOMAIN pl.projection : pl.projection[j].e = "Index"}}
OperandLocals(op) == IF op.o = "Constant" THEN {} ELSE PlaceLocals(op.place)
RvalueLocals(rvalue) ==
    CASE rvalue.rv \in {"Ref", "Len", "Discriminant"} -> PlaceLocals(rvalue.place)
      [] rvalue.rv \in {"Use", "Repeat", "UnaryOp", "Cast"} -> OperandLocals(rvalue.operand)
      [] rvalue.rv \in {"BinaryOp", "CheckedBinaryOp"} ->
            OperandLocals(rvalue.lhs) \cup OperandLocals(rvalue.rhs)
      [] rvalue.rv = "Aggregate" ->
            UNION {OperandLocals(rvalue.operands[i]) : i \in DOMAIN rvalue.operands}
      [] OTHER -> {}

(***************************************************************************)
(* MIR bodies: basic blocks of statements and a terminator.                *)
(***************************************************************************)
Assign(pl, rv) == [s |-> "Assign", place |-> pl, rvalue |-> rv]
FakeRead(cause, pl) == [s |-> "FakeRead", cause |-> cause, place |-> pl]
SetDiscriminant(pl) == [s |-> "SetDiscriminant", place |-> pl]
StorageLive(l) == [s |-> "StorageLive", local |-> l]
StorageDead(l) == [s |-> "StorageDead", local |-> l]
Nop == [s |-> "Nop"]

Return == [t |-> "Return"]
Goto(b) == [t |-> "Goto", target |-> b]
Unreachable == [t |-> "Unreachable"]
\* a call, and a call whose span allows unstable features (written in a
\* macro with #[allow_internal_unstable])
Call(f, as, dest, b) ==
    [t |-> "Call", func |-> f, args |-> as, destination |-> dest, target |-> b,
     allow_internal_unstable |-> FALSE]
CallInMacro(f, as, dest, b) ==
    [t |-> "Call", func |-> f, args |-> as, destination |-> dest, target |-> b,
     allow_internal_unstable |-> TRUE]
Drop(pl, b) == [t |-> "Drop", location |-> pl, target |-> b]
DropAndReplace(pl, v, b) == [t |-> "DropAndReplace", location |-> pl, value |-> v, target |-> b]

BasicBlockData(stmts, term, cleanup) ==
    [statements |-> stmts, terminator |-> term, is_cleanup |-> cleanup]

\* basic block bb is basic_blocks[bb + 1]
Body(blocks, ret_ty) == [basic_blocks |-> blocks, local_decls |-> Decls(ret_ty)]

Blocks(body) == 0 .. Len(body.basic_blocks) - 1
BlockData(body, bb) == body.basic_blocks[bb + 1]
return_ty(body) == body.local_decls[RETURN_PLACE + 1].ty

Location(bb, i) == [block |-> bb, statement_index |-> i]
terminator_loc(body, bb) == Location(bb, Len(BlockData(body, bb).statements))
Locations(body) ==
    UNION {{Location(bb, i) : i \in 0 .. Len(BlockData(body, bb).statements)} :
             bb \in Blocks(body)}

\* Terminator::successors (the model's bodies have no unwind edges)
successors(term) ==
    IF term.t \in {"Goto", "Call", "Drop", "DropAndReplace"} THEN {term.target} ELSE {}

\* Place::is_indirect
is_indirect(place) == \E i \in DOMAIN place.projection : place.projection[i] = Deref

\* the operands of an rvalue
RvalueOperands(rvalue) ==
    CASE rvalue.rv \in {"Use", "Repeat", "UnaryOp", "Cast"} -> {rvalue.operand}
      [] rvalue.rv \in {"BinaryOp", "CheckedBinaryOp"} -> {rvalue.lhs, rvalue.rhs}
      [] rvalue.rv = "Aggregate" -> {rvalue.operands[i] : i \in DOMAIN rvalue.operands}
      [] OTHER -> {}

\* the locals moved out of as a whole (Operand::Move of a bare local)
MovedFrom(operands) ==
    {op.place.local : op \in {o \in operands : o.o = "Move" /\ o.place.projection = <<>>}}

(***************************************************************************)
(* The dataflow analyses the Qualifs cursors read.  FlowSensitiveAnalysis  *)
(* (resolver.rs), IndirectlyMutableLocals and the fixpoint engine are not  *)
(* part of the two files modelled: they are modelled after their           *)
(* description.  An analysis is a qualif or "IndirectlyMutable"; a         *)
(* dataflow state is the set of the locals whose bit is set.               *)
(***************************************************************************)
Analyses == Qualifs \cup {"IndirectlyMutable"}

\* TransferFunction::assign_qualif_direct: a qualifying value sets the bit
\* of the local written, a value that does not qualify leaves it
assign_qualif_direct(state, place, value) ==
    IF value /\ ~is_indirect(place) THEN state \cup {place.local} ELSE state

\* a move out of a local clears its bit if the qualif is cleared on move
clear_on_move(Q, state, operands) ==
    IF IS_CLEARED_ON_MOVE(Q) THEN state \ MovedFrom(operands) ELSE state

\* IndirectlyMutableLocals: a mutable borrow of a local, or a shared borrow
\* of a local that is not Freeze, makes it indirectly mutable until its
\* storage dies
borrow_effect(cx, state, stmt) ==
    CASE stmt.s = "Assign" /\ stmt.rvalue.rv = "Ref" ->
            IF /\ ~is_indirect(stmt.rvalue.place)
               /\ \/ stmt.rvalue.kind = "Mut"
                  \/ ~is_freeze(place_ty(cx, stmt.rvalue.place))
            THEN state \cup {stmt.rvalue.place.local} ELSE state
      [] stmt.s = "StorageDead" -> state \ {stmt.local}
      [] OTHER -> state

statement_effect(A, cx, state, stmt) ==
    IF A = "IndirectlyMutable" THEN borrow_effect(cx, state, stmt)
    ELSE IF stmt.s = "Assign"
         THEN clear_on_move(A,
                assign_qualif_direct(state, stmt.place, in_rvalue(A, cx, state, stmt.rvalue)),
                RvalueOperands(stmt.rvalue))
         ELSE state

\* the effect of a terminator on the way to its successor (for a Call,
\* with apply_call_return_effect)
terminator_effect(A, cx, state, term) ==
    IF A = "IndirectlyMutable" THEN state
    ELSE CASE term.t = "DropAndReplace" ->
                 clear_on_move(A,
                   assign_qualif_direct(state, term.location,
                                        in_operand(A, cx, state, term.value)),
                   {term.value})
           [] term.t = "Call" ->
                 assign_qualif_direct(
                   clear_on_move(A, state, {term.args[i] : i \in DOMAIN term.args}),
                   term.destination,
                   in_call(A, cx, state, term.func, term.args, place_ty(cx, term.destination)))
           [] OTHER -> state

RECURSIVE states_in_block(_, _, _, _)
\* the dataflow states before each statement and before the terminator of
\* a block, from the state at its entry
states_in_block(A, cx, entry, stmts) ==
    IF stmts = <<>> THEN <<entry>>
    ELSE <<entry>> \o states_in_block(A, cx, statement_effect(A, cx, entry, Head(stmts)),
                                       Tail(stmts))

block_exit(A, body, bb, entry) ==
    LET data == BlockData(body, bb)
        sts == states_in_block(A, body.local_decls, entry, data.statements)
    IN  terminator_effect(A, body.local_decls, sts[Len(sts)], data.terminator)

RECURSIVE iterate_to_fixpoint(_, _, _)
\* Engine::iterate_to_fixpoint: the entry sets, joined by union
iterate_to_fixpoint(A, body, entry_sets) ==
    LET next == [bb \in Blocks(body) |->
                   entry_sets[bb] \cup
                     UNION {block_exit(A, body, p, entry_sets[p]) :
                              p \in {q \in Blocks(body) :
                                       bb \in successors(BlockData(body, q).terminator)}}]
    IN  IF next = entry_sets THEN entry_sets ELSE iterate_to_fixpoint(A, body, next)

\* the results of an analysis: results[bb][i] is the state before
\* statement i of block bb (i = the number of statements: the terminator)
Results(A, body) ==
    LET entry_sets == iterate_to_fixpoint(A, body, [bb \in Blocks(body) |-> {}])
    IN  [bb \in Blocks(body) |->
           LET sts == states_in_block(A, body.local_decls, entry_sets[bb],
                                      BlockData(body, bb).statements)
           IN  [i \in 0 .. Len(sts) - 1 |-> sts[i + 1]]]

(***************************************************************************)
(* State.                                                                  *)
(***************************************************************************)
VARIABLES
    qin,      \* the arguments of a call of a qualif function
    qout,     \* its result
    body,     \* item.body, the MIR under validation
    results,  \* the fixpoint of each analysis, computed by Validator::new
    qualifs,  \* Validator.qualifs: where each of the three cursors stands
    ret,      \* what qualifs_in_return_place returned
    item,     \* Validator.item but for its body, and what tcx answers about it
    pc,       \* where check_body stands
    at,       \* the location of the node the walk visits next
    span,     \* Validator.span
    checks,   \* the calls of check_op_spanned so far, each with its outcome
    emitted   \* the diagnostics check_body emitted itself, not through the gate

qvars == <<qin, qout>>
cvars == <<body, results, qualifs, ret>>
wvars == <<item, pc, at, span, checks, emitted>>
vars == <<qin, qout, body, results, qualifs, ret, item, pc, at, span, checks, emitted>>

(***************************************************************************)
(* validation.rs: QualifCursor and Qualifs.  A cursor stands at the start  *)
(* (as constructed) or before a location.                                  *)
(***************************************************************************)
AtStart == [at |-> "start", block |-> 0, statement_index |-> 0]
Before(location) ==
    [at |-> "before", block |-> location.block, statement_index |-> location.statement_index]

\* Qualifs as Validator::new builds it
NewQualifs ==
    [has_mut_interior |-> AtStart, needs_drop |-> AtStart, indirectly_mutable |-> AtStart]

AllResults(b) == [A \in Analyses |-> Results(A, b)]

\* cursor.get(): a new ResultsCursor holds the entry set of the start block,
\* a new DataflowResultsCursor (indirectly_mutable) an empty set
cursor_get(A, pos) ==
    IF pos.at = "start" /\ A = "IndirectlyMutable" THEN {}
    ELSE results[A][pos.block][pos.statement_index]

\* QualifCursor.in_any_value_of_ty, filled by QualifCursor::new
cursor_in_any_value_of_ty(Q) ==
    {local \in Locals(body.local_decls) : in_any_value_of_ty(Q, body.local_decls[local + 1].ty)}

\* the query functions return [result, qualifs]: what the function returns
\* and the cursors as it leaves them
indirectly_mutable(q, local, location) ==
    LET q1 == [q EXCEPT !.indirectly_mutable = Before(location)]
    IN  [result |-> local \in cursor_get("IndirectlyMutable", q1.indirectly_mutable),
         qualifs |-> q1]

\* the answer of the declared type alone, without the cursors
needs_drop_lazy_seek_type_only(q, local, location) ==
    [result |-> local \in cursor_in_any_value_of_ty("NeedsDrop"), qualifs |-> q]

needs_drop_lazy_seek(q, local, location) ==
    IF local \notin cursor_in_any_value_of_ty("NeedsDrop")
    THEN [result |-> FALSE, qualifs |-> q]
    ELSE LET q1 == [q EXCEPT !.needs_drop = Before(location)]
         IN  IF local \in cursor_get("NeedsDrop", q1.needs_drop)
             THEN [result |-> TRUE, qualifs |-> q1]
             ELSE indirectly_mutable(q1, local, location)

\* the query were it to read the cursors where they stand
has_mut_interior_lazy_seek_no_seek(q, local, location) ==
    [result |-> /\ local \in cursor_in_any_value_of_ty("HasMutInterior")
                /\ \/ local \in cursor_get("HasMutInterior", q.has_mut_interior)
                   \/ local \in cursor_get("IndirectlyMutable", q.indirectly_mutable),
     qualifs |-> q]

has_mut_interior_lazy_seek(q, local, location) ==
    IF local \notin cursor_in_any_value_of_ty("HasMutInterior")
    THEN [result |-> FALSE, qualifs |-> q]
    ELSE LET q1 == [q EXCEPT !.has_mut_interior = Before(location)]
         IN  IF local \in cursor_get("HasMutInterior", q1.has_mut_interior)
             THEN [result |-> TRUE, qualifs |-> q1]
             ELSE indirectly_mutable(q1, local, location)

\* the eager read without the indirectly-mutable cursor
has_mut_interior_eager_seek_cursor_only(q, local) ==
    IF local \notin cursor_in_any_value_of_ty("HasMutInterior") THEN FALSE
    ELSE local \in cursor_get("HasMutInterior", q.has_mut_interior)

has_mut_interior_eager_seek(q, local) ==
    IF local \notin cursor_in_any_value_of_ty("HasMutInterior") THEN FALSE
    ELSE \/ local \in cursor_get("HasMutInterior", q.has_mut_interior)
         \/ local \in cursor_get("IndirectlyMutable", q.indirectly_mutable)

\* the blocks that end in Return
ReturnBlocks == {bb \in Blocks(body) : BlockData(body, bb).terminator.t = "Return"}

\* qualifs::in_any_value_of_ty
ty_qualifs(ty) ==
    ConstQualifs(in_any_value_of_ty("HasMutInterior", ty), in_any_value_of_ty("NeedsDrop", ty))

\* in_return_place seeking to the start of the returning block
in_return_place_block_start(q) ==
    IF ReturnBlocks = {} THEN [result |-> ty_qualifs(return_ty(body)), qualifs |-> q]
    ELSE LET return_block == CHOOSE bb \in ReturnBlocks : \A other \in ReturnBlocks : bb <= other
             return_loc == Location(return_block, 0)
             nd == needs_drop_lazy_seek(q, RETURN_PLACE, return_loc)
             hmi == has_mut_interior_lazy_seek(nd.qualifs, RETURN_PLACE, return_loc)
         IN  [result |-> ConstQualifs(hmi.result, nd.result), qualifs |-> hmi.qualifs]

in_return_place(q) ==
    IF ReturnBlocks = {} THEN [result |-> ty_qualifs(return_ty(body)), qualifs |-> q]
    ELSE LET return_block == CHOOSE bb \in ReturnBlocks : \A other \in ReturnBlocks : bb <= other
             return_loc == terminator_loc(body, return_block)
             nd == needs_drop_lazy_seek(q, RETURN_PLACE, return_loc)
             hmi == has_mut_interior_lazy_seek(nd.qualifs, RETURN_PLACE, return_loc)
         IN  [result |-> ConstQualifs(hmi.result, nd.result), qualifs |-> hmi.qualifs]

\* visit_rvalue without the two seeks
seek_before_borrow_skipped(q, location) == q

\* visit_rvalue, lines 378-379: both cursors are placed before a borrow
seek_before_borrow(q, location) ==
    [q EXCEPT !.has_mut_interior = Before(location),
              !.indirectly_mutable = Before(location)]

(***************************************************************************)
(* validation.rs: the Validator.  What it asks of an item beyond its body  *)
(* is answered by the item record: the const kind, the session's           *)
(* -Zunleash-the-miri-inside-of-you, the attributes of the definition and  *)
(* the answers of the compiler's queries about it.                         *)
(***************************************************************************)
ConstKinds == {"Const", "Static", "StaticMut", "ConstFn"}

\* the NonConstOp types of ops.rs that validation.rs checks
Ops ==
    {"Downcast", "FnCallIndirect", "FnCallNonConst", "FnCallOther", "FnCallUnstable",
     "HeapAllocation", "IfOrMatch", "LiveDrop", "Loop", "MutBorrow", "MutDeref", "Panic",
     "RawPtrComparison", "RawPtrDeref", "RawPtrToIntCast", "StaticAccess",
     "ThreadLocalAccess", "Transmute", "UnionAccess"}

\* NonConstOp::is_allowed_in_item, IS_SUPPORTED_IN_MIRI and feature_gate
\* (ops.rs): the item record names the operations allowed in the item, the
\* ones the interpreter does not support and the ones behind a feature gate
is_allowed_in_item(op, it) == op \in it.allowed
IS_SUPPORTED_IN_MIRI(op, it) == op \notin it.unsupported
feature_gate(op, it) == op \in it.gated

\* spans: of the body, of the declaration of a local, of the source info of
\* the statement or terminator at a location, and the one is_min_const_fn
\* returns with its error
BodySpan == [sp |-> "body"]
DeclSpan(l) == [sp |-> "local_decl", local |-> l]
SourceInfoSpan(location) ==
    [sp |-> "source_info", block |-> location.block,
     statement_index |-> location.statement_index]
MinConstFnSpan == [sp |-> "is_min_const_fn"]

CheckOp(op, sp) == [op |-> op, span |-> sp]

\* check_op_spanned without the gate: every operation checked is an error
check_op_spanned_no_gate(it, op, sp) == [op |-> op, span |-> sp, outcome |-> "error"]

\* Validator::check_op_spanned: the outcome of the check of op at span sp
check_op_spanned(it, op, sp) ==
    IF is_allowed_in_item(op, it) THEN [op |-> op, span |-> sp, outcome |-> "none"]
    ELSE LET is_unleashable == IS_SUPPORTED_IN_MIRI(op, it) /\ ~feature_gate(op, it)
         IN  IF is_unleashable /\ it.unleash
             THEN [op |-> op, span |-> sp, outcome |-> "warning"]
             ELSE [op |-> op, span |-> sp, outcome |-> "error"]

\* Validator::check_static, as the operation it checks at sp
check_static(thread_local, sp) ==
    <<CheckOp(IF thread_local THEN "ThreadLocalAccess" ELSE "StaticAccess", sp)>>

\* PlaceContext, as far as the validator looks at it
MutatingUse(u) == [mutating |-> TRUE, use |-> u]
NonMutatingUse(u) == [mutating |-> FALSE, use |-> u]
is_mutating_use(context) == context.mutating

\* the PlaceContext of a borrow of each kind (visit_rvalue and super_rvalue)
borrow_context(kind) ==
    CASE kind = "Shared" -> NonMutatingUse("SharedBorrow")
      [] kind = "Shallow" -> NonMutatingUse("ShallowBorrow")
      [] kind = "Unique" -> NonMutatingUse("UniqueBorrow")
      [] kind = "Mut" -> MutatingUse("Borrow")

\* place_as_reborrow: the projection below the outermost Deref, if the place
\* is a reborrow
\* no place taken for a reborrow
place_as_reborrow_never(cx, place) == [some |-> FALSE, inner |-> <<>>]

place_as_reborrow(cx, place) ==
    LET proj == place.projection
        inner == SubSeq(proj, 1, Len(proj) - 1)
    IN  IF /\ proj # <<>>
           /\ proj[Len(proj)] = Deref
           /\ ~cx[place.local + 1].static_ref
           /\ ty_from(cx, place.local, inner).k = "Ref"
        THEN [some |-> TRUE, inner |-> inner]
        ELSE [some |-> FALSE, inner |-> <<>>]

\* Validator::visit_projection_elem: the operations checked for one element
\* of the projection of a place, sp being Validator.span
visit_projection_elem(cx, local, proj_base, elem, context, sp) ==
    LET base_ty == ty_from(cx, local, proj_base)
    IN  CASE elem.e = "Deref" ->
               IF /\ base_ty.k = "RawPtr"
                  /\ proj_base = <<>>
                  /\ cx[local + 1].static_ref
               THEN check_static(cx[local + 1].thread_local, DeclSpan(local))
               ELSE (IF base_ty.k = "RawPtr" THEN <<CheckOp("RawPtrDeref", sp)>> ELSE <<>>)
                      \o (IF is_mutating_use(context) THEN <<CheckOp("MutDeref", sp)>>
                          ELSE <<>>)
          [] elem.e \in {"ConstantIndex", "Subslice", "Field", "Index"} ->
               IF base_ty.k = "Adt" /\ AdtDef(base_ty.name).is_union
               THEN <<CheckOp("UnionAccess", sp)>> ELSE <<>>
          [] elem.e = "Downcast" -> <<CheckOp("Downcast", sp)>>

RECURSIVE visit_projection(_, _, _, _, _)
\* Visitor::super_projection: the elements from the outermost to the base
visit_projection(cx, local, projection, context, sp) ==
    IF projection = <<>> THEN <<>>
    ELSE LET proj_base == SubSeq(projection, 1, Len(projection) - 1)
         IN  visit_projection_elem(cx, local, proj_base, projection[Len(projection)],
                                   context, sp)
               \o visit_projection(cx, local, proj_base, context, sp)

\* Visitor::super_place: a projection keeps whether the use is mutating
visit_place(cx, place, context, sp) ==
    visit_projection(cx, place.local, place.projection, context, sp)

\* Validator::visit_operand
visit_operand(cx, op, sp) ==
    CASE op.o = "Copy" -> visit_place(cx, op.place, NonMutatingUse("Copy"), sp)
      [] op.o = "Move" -> visit_place(cx, op.place, NonMutatingUse("Move"), sp)
      [] op.o = "Constant" ->
           IF op.c = "StaticPtr" THEN check_static(op.thread_local, sp) ELSE <<>>

RECURSIVE visit_operands(_, _, _)
visit_operands(cx, ops, sp) ==
    IF ops = <<>> THEN <<>>
    ELSE visit_operand(cx, Head(ops), sp) \o visit_operands(cx, Tail(ops), sp)

\* Visitor::super_rvalue: the places and operands of an rvalue
super_rvalue(cx, rvalue, sp) ==
    CASE rvalue.rv \in {"Use", "Repeat", "UnaryOp", "Cast"} ->
           visit_operand(cx, rvalue.operand, sp)
      [] rvalue.rv = "Ref" -> visit_place(cx, rvalue.place, borrow_context(rvalue.kind), sp)
      [] rvalue.rv \in {"Len", "Discriminant"} ->
           visit_place(cx, rvalue.place, NonMutatingUse("Inspect"), sp)
      [] rvalue.rv \in {"BinaryOp", "CheckedBinaryOp"} ->
           visit_operand(cx, rvalue.lhs, sp) \o visit_operand(cx, rvalue.rhs, sp)
      [] rvalue.rv = "Aggregate" -> visit_operands(cx, rvalue.operands, sp)
      [] OTHER -> <<>>

\* function types: the FnDef of a named function, and function pointers
TFnDef(f) == [k |-> "FnDef", name |-> f]
TFnPtr == [k |-> "FnPtr"]

\* what tcx answers about the functions of the model: fn_sig(def_id).abi()
\* is an intrinsic ABI, item_name(def_id) == sym::transmute, is_const_fn,
\* is_lang_panic_fn, is_unstable_const_fn(def_id).is_some()
FnNames == {"transmute", "size_of", "const_fn", "panic", "unstable_const_fn", "non_const_fn"}
FnDefInfo(f) ==
    [intrinsic |-> f \in {"transmute", "size_of"},
     transmute |-> f = "transmute",
     is_const_fn |-> f = "const_fn",
     is_lang_panic_fn |-> f = "panic",
     is_unstable_const_fn |-> f = "unstable_const_fn"]

\* no span allows an unstable feature
allows_unstable_never(sp) == FALSE

\* span.allows_unstable(feature): the span is that of a call written in a
\* macro with #[allow_internal_unstable]
allows_unstable(sp) ==
    /\ sp.sp = "source_info"
    /\ sp.statement_index = Len(BlockData(body, sp.block).statements)
    /\ BlockData(body, sp.block).terminator.t = "Call"
    /\ BlockData(body, sp.block).terminator.allow_internal_unstable

\* CastTy::from_ty
CastTy(ty) ==
    CASE ty.k = "Int" -> "Int"
      [] ty.k = "RawPtr" -> "Ptr"
      [] ty.k = "FnPtr" -> "FnPtr"

\* visit_rvalue with the mutable-static exception left out
visit_rvalue_no_static_mut(it, q, sp, rvalue, location) ==
    [checks |-> super_rvalue(body.local_decls, rvalue, sp)
                  \o (IF rvalue.rv = "Ref" /\ rvalue.kind \in {"Mut", "Unique"}
                      THEN <<CheckOp("MutBorrow", sp)>> ELSE <<>>),
     qualifs |-> q]

\* Validator::visit_rvalue: the operations checked, and the cursors after
visit_rvalue(it, q, sp, rvalue, location) ==
    LET cx == body.local_decls
        reborrow == IF rvalue.rv = "Ref" THEN place_as_reborrow(cx, rvalue.place)
                    ELSE [some |-> FALSE, inner |-> <<>>]
        super == super_rvalue(cx, rvalue, sp)
    IN  IF reborrow.some
        THEN [checks |-> visit_projection(cx, rvalue.place.local, reborrow.inner,
                                          borrow_context(rvalue.kind), sp),
              qualifs |-> q]
        ELSE CASE rvalue.rv = "Ref" /\ rvalue.kind \in {"Mut", "Unique"} ->
                    LET ty == place_ty(cx, rvalue.place)
                        is_allowed == ty.k \in {"Array", "Slice"}
                                        /\ it.const_kind = "StaticMut"
                    IN  [checks |-> super \o (IF ~is_allowed
                                              THEN <<CheckOp("MutBorrow", sp)>> ELSE <<>>),
                         qualifs |-> q]
               [] rvalue.rv = "Ref" /\ rvalue.kind \in {"Shared", "Shallow"} ->
                    LET sought == seek_before_borrow(q, location)
                        per_local == {l \in Locals(cx) :
                                        has_mut_interior_eager_seek(sought, l)}
                        borrowed_place_has_mut_interior ==
                            in_place("HasMutInterior", cx, per_local, rvalue.place)
                    IN  [checks |-> super \o (IF borrowed_place_has_mut_interior
                                              THEN <<CheckOp("MutBorrow", sp)>> ELSE <<>>),
                         qualifs |-> sought]
               [] rvalue.rv = "Cast" /\ rvalue.cast_kind = "Misc" ->
                    LET cast_in == CastTy(operand_ty(cx, rvalue.operand))
                        cast_out == CastTy(rvalue.ty)
                    IN  [checks |-> super \o (IF cast_in \in {"Ptr", "FnPtr"}
                                                   /\ cast_out = "Int"
                                              THEN <<CheckOp("RawPtrToIntCast", sp)>>
                                              ELSE <<>>),
                         qualifs |-> q]
               [] rvalue.rv = "BinaryOp" ->
                    [checks |-> super \o (IF operand_ty(cx, rvalue.lhs).k
                                                \in {"RawPtr", "FnPtr"}
                                          THEN <<CheckOp("RawPtrComparison", sp)>>
                                          ELSE <<>>),
                     qualifs |-> q]
               [] rvalue.rv = "NullaryOp" /\ rvalue.op = "Box" ->
                    [checks |-> super \o <<CheckOp("HeapAllocation", sp)>>, qualifs |-> q]
               [] OTHER -> [checks |-> super, qualifs |-> q]

\* a visit of a statement that checks nothing
visit_statement_unchecked(it, q, sp, statement, location) ==
    [checks |-> <<>>, qualifs |-> q, span |-> sp]

\* Validator::visit_statement: the operations checked, the cursors and the
\* span after
visit_statement(it, q, sp, statement, location) ==
    CASE statement.s = "Assign" ->
           LET here == SourceInfoSpan(location)
               rv == visit_rvalue(it, q, here, statement.rvalue, location)
           IN  [checks |-> visit_place(body.local_decls, statement.place,
                                       MutatingUse("Store"), here) \o rv.checks,
                qualifs |-> rv.qualifs,
                span |-> here]
      [] statement.s = "SetDiscriminant" ->
           LET here == SourceInfoSpan(location)
           IN  [checks |-> visit_place(body.local_decls, statement.place,
                                       MutatingUse("Store"), here),
                qualifs |-> q,
                span |-> here]
      [] statement.s = "FakeRead" /\ statement.cause = "ForMatchedPlace" ->
           [checks |-> <<CheckOp("IfOrMatch", sp)>>, qualifs |-> q, span |-> sp]
      [] OTHER -> [checks |-> <<>>, qualifs |-> q, span |-> sp]

\* Visitor::super_terminator_kind: the operands and places of a terminator
super_terminator_kind(cx, kind, sp) ==
    CASE kind.t = "Call" ->
           visit_operand(cx, kind.func, sp) \o visit_operands(cx, kind.args, sp)
             \o visit_place(cx, kind.destination, MutatingUse("Call"), sp)
      [] kind.t = "Drop" -> visit_place(cx, kind.location, MutatingUse("Drop"), sp)
      [] kind.t = "DropAndReplace" ->
           visit_place(cx, kind.location, MutatingUse("Drop"), sp)
             \o visit_operand(cx, kind.value, sp)
      [] OTHER -> <<>>

\* Validator::visit_terminator_kind, after super_terminator has set the
\* span to that of the terminator
visit_terminator_kind(it, q, kind, location) ==
    LET cx == body.local_decls
        here == SourceInfoSpan(location)
        super == super_terminator_kind(cx, kind, here)
    IN  CASE kind.t = "Call" ->
               LET fn_ty == operand_ty(cx, kind.func)
                   def == FnDefInfo(fn_ty.name)
                   op == IF fn_ty.k = "FnPtr" THEN "FnCallIndirect"
                         ELSE IF fn_ty.k # "FnDef" THEN "FnCallOther"
                         ELSE IF def.intrinsic
                              THEN (IF def.transmute THEN "Transmute" ELSE "")
                         ELSE IF def.is_const_fn THEN ""
                         ELSE IF def.is_lang_panic_fn THEN "Panic"
                         ELSE IF def.is_unstable_const_fn
                              THEN (IF ~allows_unstable(here) THEN "FnCallUnstable" ELSE "")
                         ELSE "FnCallNonConst"
               IN  [checks |-> super \o (IF op = "" THEN <<>> ELSE <<CheckOp(op, here)>>),
                    qualifs |-> q,
                    span |-> here]
          [] kind.t \in {"Drop", "DropAndReplace"} ->
               LET dropped_place == kind.location
                   ty_needs_drop == needs_drop(place_ty(cx, dropped_place))
                   as_local == dropped_place.projection = <<>>
                   err_span == IF as_local THEN DeclSpan(dropped_place.local) ELSE here
                   seek == IF ty_needs_drop /\ as_local
                           THEN needs_drop_lazy_seek(q, dropped_place.local, location)
                           ELSE [result |-> TRUE, qualifs |-> q]
               IN  [checks |-> super \o (IF ty_needs_drop /\ seek.result
                                         THEN <<CheckOp("LiveDrop", err_span)>> ELSE <<>>),
                    qualifs |-> seek.qualifs,
                    span |-> here]
          [] OTHER -> [checks |-> super, qualifs |-> q, span |-> here]

\* check_body without the loop check
check_body_loop_skipped(b) == <<>>

RECURSIVE reachable_from(_, _)
\* the blocks reachable from a set of blocks along one edge or more
reachable_from(b, blocks) ==
    LET next == blocks \cup UNION {successors(BlockData(b, bb).terminator) : bb \in blocks}
    IN  IF next = blocks THEN blocks ELSE reachable_from(b, next)

\* Body::is_cfg_cyclic: some block of the control-flow graph reaches itself
is_cfg_cyclic(b) ==
    \E bb \in Blocks(b) :
       bb \in reachable_from(b, successors(BlockData(b, bb).terminator))

\* check_body, lines 219-223: the operation checked for a cyclic body
check_body_loop(b) == IF is_cfg_cyclic(b) THEN <<CheckOp("Loop", BodySpan)>> ELSE <<>>

\* the pre-check made whatever the override
use_min_const_fn_checks_always(it) == it.is_min_const_fn

\* check_body, lines 204-206
use_min_const_fn_checks(it) == it.is_min_const_fn /\ ~it.unleash

\* check_body, the condition of the Sync check
should_check_for_sync(it) == it.const_kind = "Static" /\ ~it.thread_local

\* the location that marks a check made outside of the walk
NoLocation == [block |-> 0 - 1, statement_index |-> 0 - 1]

RECURSIVE gate(_, _, _)
\* the requested checks through check_op_spanned, in order, each with the
\* location of the node that asked for it
gate(it, requests, location) ==
    IF requests = <<>> THEN <<>>
    ELSE LET c == check_op_spanned(it, Head(requests).op, Head(requests).span)
         IN  <<[op |-> c.op, span |-> c.span, outcome |-> c.outcome, at |-> location]>>
               \o gate(it, Tail(requests), location)

(***************************************************************************)
(* The items and bodies the validator is run on.                           *)
(***************************************************************************)
\* an item of a const kind of which nothing else is special: no override,
\* not a min_const_fn, no destroyed control flow, no operation allowed
PlainItem(ck) ==
    [const_kind |-> ck,
     unleash |-> FALSE,              \* -Zunleash-the-miri-inside-of-you
     is_min_const_fn |-> FALSE,      \* tcx.is_min_const_fn(def_id)
     min_const_fn_err |-> FALSE,     \* qualify_min_const_fn::is_min_const_fn is Err
     control_flow_destroyed |-> FALSE, \* body.control_flow_destroyed is not empty
     has_vars |-> TRUE,              \* body.vars_iter() is not empty
     thread_local |-> FALSE,         \* tcx.has_attr(def_id, sym::thread_local)
     return_ty_is_sync |-> TRUE,     \* the Sync obligation of the return type holds
     allowed |-> {}, unsupported |-> {}, gated |-> {}]

AllowedSets == {{}, {"Loop", "StaticAccess"}}
UnsupportedSets == {{}, {"HeapAllocation", "ThreadLocalAccess", "Loop"}}
GatedSets == {{}, {"Loop", "Downcast", "Panic", "StaticAccess"}}

\* the const kinds, with and without the override, under every answer of
\* ops.rs
GateItems ==
    {[PlainItem(ck) EXCEPT !.unleash = u, !.allowed = a, !.unsupported = n, !.gated = g] :
       ck \in ConstKinds, u \in BOOLEAN, a \in AllowedSets, n \in UnsupportedSets,
       g \in GatedSets}

\* the items that make the whole-body checks of check_body differ
BodyCheckItems ==
    {[PlainItem(ck) EXCEPT !.unleash = u, !.is_min_const_fn = m[1],
                           !.min_const_fn_err = m[2],
                           !.control_flow_destroyed = c[1], !.has_vars = c[2],
                           !.thread_local = s[1], !.return_ty_is_sync = s[2],
                           !.allowed = a] :
       ck \in ConstKinds, u \in BOOLEAN,
       m \in {<<FALSE, FALSE>>, <<TRUE, FALSE>>, <<TRUE, TRUE>>},
       c \in {<<FALSE, TRUE>>, <<TRUE, TRUE>>, <<TRUE, FALSE>>},
       s \in {<<FALSE, TRUE>>, <<FALSE, FALSE>>, <<TRUE, TRUE>>},
       a \in {{}, {"Loop"}}}

\* only a const fn is a min_const_fn, only a static is thread-local or has
\* to be Sync
WellFormedItem(it) ==
    /\ it.is_min_const_fn => it.const_kind = "ConstFn"
    /\ it.min_const_fn_err => it.is_min_const_fn
    /\ it.thread_local => it.const_kind \in {"Static", "StaticMut"}
    /\ ~it.return_ty_is_sync => it.const_kind \in {"Static", "StaticMut"}

Items == {it \in GateItems \cup BodyCheckItems : WellFormedItem(it)}
CoreItems == {[PlainItem(ck) EXCEPT !.unleash = u] : ck \in ConstKinds, u \in BOOLEAN}

\* the validator is not running (the specifications of the qualif
\* functions and of the cursors)
WalkIdle ==
    /\ item = PlainItem("Const")
    /\ pc = "idle"
    /\ at = Location(0, 0)
    /\ span = BodySpan
    /\ checks = <<>>
    /\ emitted = <<>>

QNone == [done |-> FALSE, Q |-> "", result |-> FALSE]

(***************************************************************************)
(* SpecQualif: the qualif functions applied to every input of the menus.   *)
(***************************************************************************)
QInputs ==
    UNION {{[kind |-> "place", node |-> pl, per_local |-> s] :
              s \in SUBSET PlaceLocals(pl)} : pl \in QPlaces}
      \cup UNION {{[kind |-> "operand", node |-> op, per_local |-> s] :
                     s \in SUBSET OperandLocals(op)} : op \in QOperands}
      \cup UNION {{[kind |-> "rvalue", node |-> rv, per_local |-> s] :
                     s \in SUBSET RvalueLocals(rv)} : rv \in QRvalues}
      \cup {[kind |-> "call", node |-> [return_ty |-> t], per_local |-> {}] :
              t \in {TInt, TAdt("UnsafeCell"), TAdt("Droppy"), TAdt("Pair"),
                     TRef(TAdt("UnsafeCell"))}}

\* a body of one empty block that returns
EmptyBody == Body(<<BasicBlockData(<<>>, Return, FALSE)>>, TInt)
RetNone == [done |-> FALSE, value |-> ConstQualifs(FALSE, FALSE)]

CursorIdle ==
    /\ body = EmptyBody
    /\ results = AllResults(EmptyBody)
    /\ qualifs = NewQualifs
    /\ ret = RetNone

InitQualif ==
    /\ qin \in QInputs
    /\ qout = QNone
    /\ CursorIdle
    /\ WalkIdle

QResult(Q, r) == [done |-> TRUE, Q |-> Q, result |-> r]

EvalInPlace ==
    /\ ~qout.done /\ qin.kind = "place"
    /\ \E Q \in Qualifs : qout' = QResult(Q, in_place(Q, QDecls, qin.per_local, qin.node))
    /\ UNCHANGED <<qin, cvars, wvars>>

EvalInOperand ==
    /\ ~qout.done /\ qin.kind = "operand"
    /\ \E Q \in Qualifs : qout' = QResult(Q, in_operand(Q, QDecls, qin.per_local, qin.node))
    /\ UNCHANGED <<qin, cvars, wvars>>

EvalInRvalue ==
    /\ ~qout.done /\ qin.kind = "rvalue"
    /\ \E Q \in Qualifs : qout' = QResult(Q, in_rvalue(Q, QDecls, qin.per_local, qin.node))
    /\ UNCHANGED <<qin, cvars, wvars>>

EvalInCall ==
    /\ ~qout.done /\ qin.kind = "call"
    /\ \E Q \in Qualifs :
         qout' = QResult(Q, in_call(Q, QDecls, qin.per_local, Lit(TInt), <<>>,
                                    qin.node.return_ty))
    /\ UNCHANGED <<qin, cvars, wvars>>

NextQualif == EvalInPlace \/ EvalInOperand \/ EvalInRvalue \/ EvalInCall

SpecQualif == InitQualif /\ [][NextQualif]_vars

(***************************************************************************)
(* SpecCursor: the queries of Qualifs, in any order and with any           *)
(* arguments, on the bodies made of at most MaxStmts statements of a       *)
(* script that builds, borrows, moves and rebuilds values.                 *)
(***************************************************************************)
NewDroppy == Aggregate("Droppy", TAdt("Droppy"), <<Lit(TInt)>>)
NewCell == Aggregate("UnsafeCell", TAdt("UnsafeCell"), <<Lit(TInt)>>)

Script(ret_ty) ==
    IF ret_ty = TAdt("Droppy")
    THEN << Assign(Bare(2), NewDroppy),                    \* _2 = Droppy { .. }
            Assign(Bare(11), Ref("Mut", Bare(2))),         \* _11 = &mut _2
            Assign(Bare(11), Ref("Mut", Bare(0))),         \* _11 = &mut _0
            Assign(Bare(0), Use(Move(Bare(2)))),           \* _0 = move _2
            Assign(Bare(2), NewDroppy) >>                  \* _2 = Droppy { .. }
    ELSE IF ret_ty = TAdt("UnsafeCell")
    THEN << Assign(Bare(1), NewCell),                      \* _1 = UnsafeCell { .. }
            Assign(Bare(3), Ref("Shared", Bare(0))),       \* _3 = &_0
            Assign(Bare(0), Use(Move(Bare(1)))),           \* _0 = move _1
            Assign(Bare(3), Ref("Shared", Bare(1))),       \* _3 = &_1
            StorageDead(1) >>
    ELSE << Assign(Bare(0), Use(Lit(TInt))),               \* _0 = const
            Assign(Bare(2), NewDroppy),                    \* _2 = Droppy { .. }
            Assign(Bare(6), Use(Copy(Bare(0)))) >>         \* _6 = _0

RECURSIVE SubSeqs(_, _)
\* the subsequences of at most n elements of a sequence
SubSeqs(seq, n) ==
    IF seq = <<>> \/ n = 0 THEN {<<>>}
    ELSE SubSeqs(Tail(seq), n) \cup {<<Head(seq)>> \o rest : rest \in SubSeqs(Tail(seq), n - 1)}

\* one block that returns, one block that loops, or two blocks
FlowShapes(stmts, ret_ty) ==
    {Body(<<BasicBlockData(stmts, Return, FALSE)>>, ret_ty),
     Body(<<BasicBlockData(stmts, Goto(0), FALSE)>>, ret_ty)}
      \cup (IF stmts = <<>> THEN {}
            ELSE {Body(<<BasicBlockData(<<Head(stmts)>>, Goto(1), FALSE),
                         BasicBlockData(Tail(stmts), Return, FALSE)>>, ret_ty)})

FlowBodies ==
    UNION {UNION {FlowShapes(stmts, ret_ty) : stmts \in SubSeqs(Script(ret_ty), MaxStmts)} :
             ret_ty \in RetTys}

\* the locals a body mentions, and the return place
StatementLocals(stmt) ==
    CASE stmt.s = "Assign" -> PlaceLocals(stmt.place) \cup RvalueLocals(stmt.rvalue)
      [] stmt.s \in {"StorageLive", "StorageDead"} -> {stmt.local}
      [] stmt.s \in {"FakeRead", "SetDiscriminant"} -> PlaceLocals(stmt.place)
      [] OTHER -> {}
BodyLocals(b) ==
    {RETURN_PLACE} \cup
      UNION {UNION {StatementLocals(BlockData(b, bb).statements[i]) :
                      i \in DOMAIN BlockData(b, bb).statements} : bb \in Blocks(b)}

QualifIdle ==
    /\ qin = [kind |-> "none", node |-> Nop, per_local |-> {}]
    /\ qout = QNone

InitCursor ==
    /\ body \in FlowBodies
    /\ results = AllResults(body)
    /\ qualifs = NewQualifs
    /\ ret = RetNone
    /\ QualifIdle
    /\ WalkIdle

NeedsDropLazySeek ==
    /\ \E local \in BodyLocals(body), location \in Locations(body) :
         qualifs' = needs_drop_lazy_seek(qualifs, local, location).qualifs
    /\ UNCHANGED <<qvars, body, results, ret, wvars>>

HasMutInteriorLazySeek ==
    /\ \E local \in BodyLocals(body), location \in Locations(body) :
         qualifs' = has_mut_interior_lazy_seek(qualifs, local, location).qualifs
    /\ UNCHANGED <<qvars, body, results, ret, wvars>>

SeekBeforeBorrow ==
    /\ \E location \in Locations(body) : qualifs' = seek_before_borrow(qualifs, location)
    /\ UNCHANGED <<qvars, body, results, ret, wvars>>

QualifsInReturnPlace ==
    /\ LET r == in_return_place(qualifs)
       IN  /\ ret' = [done |-> TRUE, value |-> r.result]
           /\ qualifs' = r.qualifs
    /\ UNCHANGED <<qvars, body, results, wvars>>

NextCursor ==
    NeedsDropLazySeek \/ HasMutInteriorLazySeek \/ SeekBeforeBorrow \/ QualifsInReturnPlace

SpecCursor == InitCursor /\ [][NextCursor]_vars

(***************************************************************************)
(* Spec: Validator::new and then check_body, step by step: the             *)
(* min_const_fn pre-check, the short-circuit check, the loop check, the    *)
(* visit of every statement and terminator in block order, the Sync check. *)
(***************************************************************************)
Resume == [t |-> "Resume"]

NewBox == Assign(Bare(16), NullaryOp("Box", TInt))
MatchRead == FakeRead("ForMatchedPlace", Bare(6))

\* the statements the bodies of several nodes are made of: two that ask for
\* a check whatever the state, one that asks for none
Fillers == {MatchRead, NewBox, StorageLive(6)}

RECURSIVE SeqsUpTo(_, _)
\* the sequences of at most n elements of S
SeqsUpTo(S, n) ==
    IF n = 0 THEN {<<>>}
    ELSE LET shorter == SeqsUpTo(S, n - 1)
         IN  shorter \cup {Append(s, x) : s \in {t \in shorter : Len(t) = n - 1}, x \in S}

\* the control-flow graphs given to a sequence of statements: straight, a
\* loop through the entry block, a loop no path from the entry reaches, a
\* cleanup block at the end and a cleanup block in the middle
WalkShapes(stmts) ==
    {Body(<<BasicBlockData(stmts, Return, FALSE)>>, TInt),
     Body(<<BasicBlockData(stmts, Goto(0), FALSE)>>, TInt)}
      \cup (IF stmts = <<>> THEN {}
            ELSE {Body(<<BasicBlockData(<<Head(stmts)>>, Return, FALSE),
                         BasicBlockData(Tail(stmts), Goto(1), FALSE)>>, TInt),
                  Body(<<BasicBlockData(<<Head(stmts)>>, Return, FALSE),
                         BasicBlockData(Tail(stmts), Resume, TRUE)>>, TInt),
                  Body(<<BasicBlockData(<<Head(stmts)>>, Goto(2), FALSE),
                         BasicBlockData(<<Head(stmts)>>, Resume, TRUE),
                         BasicBlockData(Tail(stmts), Return, FALSE)>>, TInt)})

FillerBodies == UNION {WalkShapes(stmts) : stmts \in SeqsUpTo(Fillers, MaxStmts)}

\* one statement of every kind the validator tells apart
WalkStatements ==
    {Assign(Bare(14), Ref(bk, Bare(13))) : bk \in {"Mut", "Unique", "Shared", "Shallow"}}
      \cup {Assign(Bare(15), Ref(bk, Place(15, <<Deref, Subslice>>))) : bk \in {"Mut", "Shared"}}
      \cup {Assign(Bare(11), Ref(bk, Bare(2))) : bk \in {"Mut", "Unique", "Shared"}}
      \cup {Assign(Bare(3), Ref(bk, Bare(1))) : bk \in {"Mut", "Shared"}}
      \cup {Assign(Bare(3), Ref(bk, Place(3, <<Deref>>))) :
               bk \in {"Mut", "Unique", "Shared", "Shallow"}}
      \cup {Assign(Bare(11), Ref(bk, Place(10, <<Deref, Deref>>))) :
               bk \in {"Mut", "Unique", "Shared", "Shallow"}}
      \cup {Assign(Bare(3), Ref(bk, Place(4, <<Deref>>))) : bk \in {"Mut", "Shared"}}
      \cup {Assign(Bare(11), Ref(bk, Place(9, <<Deref>>))) : bk \in {"Mut", "Shared"}}
      \cup {Assign(Place(pl, <<Deref>>), Use(Lit(TInt))) : pl \in {12, 14}}
      \cup {Assign(Bare(6), Use(Copy(Place(12, <<Deref>>)))),
            Assign(Bare(6), Use(Copy(Place(7, <<Field(TInt)>>)))),
            Assign(Bare(2), Use(Move(Place(8, <<Downcast, Field(TAdt("Droppy"))>>)))),
            Assign(Bare(6), Use(Lit(TInt))),
            Assign(Bare(3), Use(StaticPtr(TRef(TAdt("UnsafeCell")), TAdt("UnsafeCell"), FALSE))),
            Assign(Bare(3), Use(StaticPtr(TRef(TAdt("UnsafeCell")), TAdt("UnsafeCell"), TRUE))),
            Assign(Bare(6), Cast("Misc", Copy(Bare(4)), TInt)),
            Assign(Bare(6), Cast("Misc", Copy(Bare(6)), TInt)),
            Assign(Bare(6), BinaryOp("Eq", Copy(Bare(4)), Copy(Bare(4)))),
            Assign(Bare(6), BinaryOp("Add", Copy(Bare(6)), Lit(TInt))),
            Assign(Bare(6), NullaryOp("SizeOf", TInt)),
            SetDiscriminant(Bare(8)),
            FakeRead("ForLet", Bare(6)),
            StorageDead(6), Nop}
      \cup Fillers

\* one terminator of every kind the validator tells apart, each before the
\* block that returns
WalkTerminators ==
    {Call(Lit(TFnDef(f)), <<Copy(Bare(6))>>, Bare(6), 1) : f \in FnNames}
      \cup {CallInMacro(Lit(TFnDef("unstable_const_fn")), <<>>, Bare(6), 1),
            Call(Lit(TFnPtr), <<>>, Bare(6), 1),
            Drop(Bare(2), 1), Drop(Bare(6), 1), Drop(Place(5, <<ConstantIndex>>), 1),
            Drop(Place(13, <<ConstantIndex>>), 1),
            DropAndReplace(Bare(2), Move(Place(8, <<Downcast, Field(TAdt("Droppy"))>>)), 1),
            Goto(1), Unreachable}

\* what comes before the terminator: nothing, a value that needs drop built
\* in _2, or built and moved out again
WalkSetups ==
    {<<>>, <<Assign(Bare(2), NewDroppy)>>,
     <<Assign(Bare(2), NewDroppy), Assign(Bare(0), Use(Move(Bare(2))))>>}

\* a value built or mutably borrowed, and then borrowed shared
BorrowBodies ==
    {Body(<<BasicBlockData(<<Assign(Bare(1), NewCell), Assign(Bare(3), Ref(bk, pl))>>,
                           Return, FALSE)>>, TInt) :
       bk \in {"Shared", "Shallow"}, pl \in {Bare(1), Place(1, <<Field(TInt)>>)}}
      \cup {Body(<<BasicBlockData(<<Assign(Bare(3), Ref("Mut", Bare(1))),
                                    Assign(Bare(3), Ref("Shared", Bare(1)))>>,
                                  Return, FALSE)>>, TInt),
            Body(<<BasicBlockData(<<Assign(Bare(11), Ref("Mut", Bare(2))),
                                    Assign(Bare(11), Ref("Shared", Bare(2)))>>,
                                  Return, FALSE)>>, TInt),
            Body(<<BasicBlockData(<<Assign(Bare(0), NewCell)>>, Return, FALSE)>>,
                 TAdt("UnsafeCell"))}

\* a store through a raw pointer followed by a store through the pointer of a
\* static
DerefBodies ==
    {Body(<<BasicBlockData(<<Assign(Place(4, <<Deref>>), Use(Move(Bare(1)))),
                             Assign(Place(9, <<Deref>>), Use(Move(Bare(2))))>>,
                           Return, FALSE)>>, TInt)}

NodeBodies ==
    {Body(<<BasicBlockData(<<s>>, Return, FALSE)>>, TInt) : s \in WalkStatements}
      \cup BorrowBodies
      \cup DerefBodies
      \cup {Body(<<BasicBlockData(setup, t, FALSE), BasicBlockData(<<>>, Return, FALSE)>>,
                 TAdt("Droppy")) : setup \in WalkSetups, t \in WalkTerminators}

\* the bodies every item is run on
CoreBodies ==
    UNION {WalkShapes(stmts) : stmts \in {<<>>, <<MatchRead, NewBox>>}}
      \cup {Body(<<BasicBlockData(<<Assign(Bare(14), Ref("Mut", Bare(13)))>>, Return, FALSE)>>,
                 TInt),
            Body(<<BasicBlockData(<<Assign(Bare(3), Use(StaticPtr(TRef(TAdt("UnsafeCell")),
                                                               TAdt("UnsafeCell"), FALSE)))>>,
                                  Return, FALSE)>>, TInt)}

WalkBodies == FillerBodies \cup NodeBodies \cup CoreBodies

Init ==
    /\ body \in WalkBodies
    /\ results = AllResults(body)
    /\ qualifs = NewQualifs
    /\ ret = RetNone
    /\ QualifIdle
    /\ item \in (IF body \in CoreBodies THEN Items ELSE CoreItems)
    /\ pc = "min_const_fn"
    /\ at = Location(0, 0)
    /\ span = BodySpan
    /\ checks = <<>>
    /\ emitted = <<>>

Diag(d, sp) == [diag |-> d, span |-> sp]

\* check_body, lines 204-215: the min_const_fn pre-check
MinConstFnChecks ==
    /\ pc = "min_const_fn"
    /\ IF use_min_const_fn_checks(item) /\ item.min_const_fn_err
       THEN /\ emitted' = Append(emitted, Diag("min_const_fn_violation", MinConstFnSpan))
            /\ pc' = "done"
       ELSE /\ pc' = "short_circuiting"
            /\ UNCHANGED emitted
    /\ UNCHANGED <<qvars, cvars, item, at, span, checks>>

\* check_short_circuiting_in_const_local
CheckShortCircuiting ==
    /\ pc = "short_circuiting"
    /\ emitted' = IF item.control_flow_destroyed /\ item.has_vars
                  THEN Append(emitted, Diag("short_circuiting", DeclSpan(1)))
                  ELSE emitted
    /\ pc' = "is_cfg_cyclic"
    /\ UNCHANGED <<qvars, cvars, item, at, span, checks>>

\* check_body, lines 219-223: the loop check
CheckLoop ==
    /\ pc = "is_cfg_cyclic"
    /\ checks' = checks \o gate(item, check_body_loop(body), NoLocation)
    /\ pc' = "visit_body"
    /\ UNCHANGED <<qvars, cvars, item, at, span, emitted>>

\* super_body: the next block, or the end of the walk
\* a visit of a block that skips none
visit_basic_block_data_all(block) == "super_basic_block_data"

\* Validator::visit_basic_block_data: return at once from a block on the
\* unwind path, walk any other block
visit_basic_block_data(block) ==
    IF block.is_cleanup THEN "return" ELSE "super_basic_block_data"

NextBlock ==
    /\ at' = Location(at.block + 1, 0)
    /\ pc' = IF at.block + 1 < Len(body.basic_blocks) THEN "visit_body" ELSE "check_sync"

\* visit_basic_block_data of a cleanup block
SkipCleanupBlock ==
    /\ pc = "visit_body"
    /\ visit_basic_block_data(BlockData(body, at.block)) = "return"
    /\ NextBlock
    /\ UNCHANGED <<qvars, cvars, item, span, checks, emitted>>

VisitStatement ==
    /\ pc = "visit_body"
    /\ visit_basic_block_data(BlockData(body, at.block)) = "super_basic_block_data"
    /\ at.statement_index < Len(BlockData(body, at.block).statements)
    /\ LET v == visit_statement(item, qualifs, span,
                                BlockData(body, at.block).statements[at.statement_index + 1],
                                at)
       IN  /\ checks' = checks \o gate(item, v.checks, at)
           /\ qualifs' = v.qualifs
           /\ span' = v.span
    /\ at' = Location(at.block, at.statement_index + 1)
    /\ UNCHANGED <<qvars, body, results, ret, item, pc, emitted>>

VisitTerminator ==
    /\ pc = "visit_body"
    /\ visit_basic_block_data(BlockData(body, at.block)) = "super_basic_block_data"
    /\ at.statement_index = Len(BlockData(body, at.block).statements)
    /\ LET v == visit_terminator_kind(item, qualifs, BlockData(body, at.block).terminator, at)
       IN  /\ checks' = checks \o gate(item, v.checks, at)
           /\ qualifs' = v.qualifs
           /\ span' = v.span
    /\ NextBlock
    /\ UNCHANGED <<qvars, body, results, ret, item, emitted>>

\* check_body, lines 227-234: the Sync check of a static that is not
\* thread-local
CheckSync ==
    /\ pc = "check_sync"
    /\ emitted' = IF should_check_for_sync(item) /\ ~item.return_ty_is_sync
                  THEN Append(emitted, Diag("not_sync", BodySpan))
                  ELSE emitted
    /\ pc' = "done"
    /\ UNCHANGED <<qvars, cvars, item, at, span, checks>>

Next ==
    \/ MinConstFnChecks
    \/ CheckShortCircuiting
    \/ CheckLoop
    \/ SkipCleanupBlock
    \/ VisitStatement
    \/ VisitTerminator
    \/ CheckSync

Spec == Init /\ [][Next]_vars

(***************************************************************************)
(* Claims about the qualif functions (checked under SpecQualif).           *)
(***************************************************************************)
\* the type of the value the input denotes
QNodeTy ==
    CASE qin.kind = "place" -> place_ty(QDecls, qin.node)
      [] qin.kind = "operand" -> operand_ty(QDecls, qin.node)
      [] qin.kind = "rvalue" -> rvalue_ty(QDecls, qin.node)
      [] qin.kind = "call" -> qin.node.return_ty

\* the input is Ref of Deref(P) with P of a reference type
QIsReborrow ==
    /\ qin.kind = "rvalue" /\ qin.node.rv = "Ref"
    /\ LET proj == qin.node.place.projection
       IN  /\ Len(proj) > 0
           /\ proj[Len(proj)] = Deref
           /\ ty_from(QDecls, qin.node.place.local, SubSeq(proj, 1, Len(proj) - 1)).k = "Ref"

QReborrowed ==
    Place(qin.node.place.local,
          SubSeq(qin.node.place.projection, 1, Len(qin.node.place.projection) - 1))

\* C3 (reborrow transparency): for either qualif and every per-local
\* predicate, in_rvalue of a Ref of Deref(P), P of a reference type, is
\* the qualification in_place gives for P itself.
C3_ReborrowTransparency ==
    (qout.done /\ QIsReborrow)
        => qout.result = in_place(qout.Q, QDecls, qin.per_local, QReborrowed)

\* a reborrow through a projection whose base qualifies although the
\* referent's type does not
C3_Witness ==
    /\ qout.done /\ QIsReborrow
    /\ qout.Q = "NeedsDrop" /\ qout.result
    /\ ~in_any_value_of_ty("NeedsDrop", place_ty(QDecls, qin.node.place))

\* the per-local predicate is itself sound: it holds of no local whose
\* declared type cannot qualify
QPerLocalSound ==
    \A l \in qin.per_local : in_any_value_of_ty(qout.Q, QDecls[l + 1].ty)

\* C5 (soundness of in_any_value_of_ty), as claimed: whenever the
\* structural qualification of a place, operand, rvalue or call result of
\* type T is true, in_any_value_of_ty(T) is true.
C5_Soundness ==
    (qout.done /\ QPerLocalSound /\ qout.result)
        => in_any_value_of_ty(qout.Q, QNodeTy)

\* the place in_place was asked about without its last projection element
QBase ==
    Place(qin.node.local, SubSeq(qin.node.projection, 1, Len(qin.node.projection) - 1))

\* the base of that place qualifies and the type projected to can qualify
QBaseAndTy ==
    /\ in_place(qout.Q, QDecls, qin.per_local, QBase)
    /\ in_any_value_of_ty(qout.Q, place_ty(QDecls, qin.node))

\* C17 (projection rule): in_place of a bare local is the per-local
\* predicate; of a place whose last element is Deref, Field, Subslice,
\* ConstantIndex or Downcast it is the qualification of the base place and
\* in_any_value_of_ty of the type projected to; of a place whose last
\* element is Index it is that value or the per-local predicate of the
\* index local.
C17_ProjectionRule ==
    (qout.done /\ qin.kind = "place") =>
       LET n == Len(qin.node.projection)
       IN  IF n = 0 THEN qout.result = (qin.node.local \in qin.per_local)
           ELSE IF qin.node.projection[n].e = "Index"
           THEN qout.result = (QBaseAndTy \/ qin.node.projection[n].local \in qin.per_local)
           ELSE /\ qin.node.projection[n].e
                     \in {"Deref", "Field", "Subslice", "ConstantIndex", "Downcast"}
                /\ qout.result = QBaseAndTy

\* an indexed place qualifies through its index local alone
C17_Witness ==
    /\ qout.done /\ qin.kind = "place"
    /\ qin.node.projection # <<>>
    /\ qin.node.projection[Len(qin.node.projection)].e = "Index"
    /\ ~QBaseAndTy
    /\ qout.result

(***************************************************************************)
(* Claims about the Qualifs cursors (checked under SpecCursor).            *)
(***************************************************************************)
\* the path-sensitive answer for a local at a location, read off the
\* fixpoints: false if the declared type of the local cannot qualify,
\* else the bit of the qualif before the location or that of
\* indirectly-mutable
PathSensitive(Q, local, location) ==
    /\ in_any_value_of_ty(Q, body.local_decls[local + 1].ty)
    /\ \/ local \in results[Q][location.block][location.statement_index]
       \/ local \in results["IndirectlyMutable"][location.block][location.statement_index]

\* C1 (qualifs_in_return_place): with no Return terminator the pair is
\* in_any_value_of_ty of the declared return type; with exactly one it is
\* the path-sensitive answer for the return place before that terminator.
C1_ReturnPlace ==
    ret.done =>
      /\ ReturnBlocks = {} =>
           /\ ret.value.has_mut_interior = ~is_freeze(return_ty(body))
           /\ ret.value.needs_drop = needs_drop(return_ty(body))
      /\ \A bb \in ReturnBlocks :
           ReturnBlocks = {bb} =>
             /\ ret.value.has_mut_interior
                  = PathSensitive("HasMutInterior", RETURN_PLACE, terminator_loc(body, bb))
             /\ ret.value.needs_drop
                  = PathSensitive("NeedsDrop", RETURN_PLACE, terminator_loc(body, bb))

\* the return place needs drop at the only Return, though not at the start
\* of the returning block
C1_Witness ==
    /\ ret.done /\ ret.value.needs_drop
    /\ \E bb \in ReturnBlocks :
         /\ ReturnBlocks = {bb}
         /\ ~PathSensitive("NeedsDrop", RETURN_PLACE, Location(bb, 0))

\* a diverging body whose return type needs drop
C1_WitnessNoReturn == ret.done /\ ReturnBlocks = {} /\ ret.value.needs_drop

\* statement i of block bb moves out of local l, and nothing assigns to l
\* from there up to location (bb, j)
MovedFromAt(l, bb, i, j) ==
    LET stmts == BlockData(body, bb).statements
    IN  /\ i \in 0 .. Len(stmts) - 1 /\ j \in i + 1 .. Len(stmts)
        /\ stmts[i + 1].s = "Assign"
        /\ l \in MovedFrom(RvalueOperands(stmts[i + 1].rvalue))
        /\ \A k \in i + 1 .. j - 1 :
             ~(stmts[k + 1].s = "Assign" /\ stmts[k + 1].place.local = l)

MoveCases ==
    {c \in [l : BodyLocals(body), loc : Locations(body), i : 0 .. MaxStmts + 1] :
       MovedFromAt(c.l, c.loc.block, c.i, c.loc.statement_index)}

\* a move never clears has-mut-interior
MoveKeepsHasMutInterior ==
    \A c \in MoveCases :
       c.l \in results["HasMutInterior"][c.loc.block][c.i]
         => c.l \in results["HasMutInterior"][c.loc.block][c.i + 1]

\* needs_drop_lazy_seek has been asked about the location of a move
\* case: the needs-drop cursor stands there
AskedAt(c) == qualifs.needs_drop = Before(c.loc)

C4_LazyEagerAgree ==
    \A local \in Locals(body.local_decls), location \in Locations(body) :
       has_mut_interior_eager_seek(seek_before_borrow(qualifs, location), local)
         = has_mut_interior_lazy_seek(qualifs, local, location).result

\* both cursors stand before a location where a local has mutable
\* interior only because it is indirectly mutable
C4_Witness ==
    \E local \in Locals(body.local_decls), location \in Locations(body) :
       /\ qualifs.has_mut_interior = Before(location)
       /\ qualifs.indirectly_mutable = Before(location)
       /\ has_mut_interior_eager_seek(qualifs, local)
       /\ local \notin cursor_get("HasMutInterior", qualifs.has_mut_interior)

\* the answer of the lazy-seek query of a qualif from given cursors
LazySeek(Q, q, local, location) ==
    IF Q = "NeedsDrop" THEN needs_drop_lazy_seek(q, local, location).result
    ELSE has_mut_interior_lazy_seek(q, local, location).result

\* C19 (lazy-seek queries are history-independent): wherever the earlier
\* queries left the cursors, needs_drop_lazy_seek and
\* has_mut_interior_lazy_seek of a local at a location answer what the
\* fixpoints say of that local before that location, which is what they
\* answer from new cursors, and they answer false for a local whose declared
\* type cannot qualify even where the local is indirectly mutable.
C19_LazySeekHistoryIndependent ==
    \A Q \in Qualifs, local \in BodyLocals(body), location \in Locations(body) :
       /\ LazySeek(Q, qualifs, local, location) = PathSensitive(Q, local, location)
       /\ LazySeek(Q, qualifs, local, location) = LazySeek(Q, NewQualifs, local, location)
       /\ ~in_any_value_of_ty(Q, body.local_decls[local + 1].ty)
            => ~LazySeek(Q, qualifs, local, location)

\* the cursors stand where a local has no bit while the query answers true
\* for it at another location, and a local that is indirectly mutable gets
\* the answer false because of its type
C19_Witness ==
    /\ \E local \in BodyLocals(body), location \in Locations(body) :
          /\ qualifs.needs_drop.at = "before"
          /\ qualifs.indirectly_mutable.at = "before"
          /\ local \notin cursor_get("NeedsDrop", qualifs.needs_drop)
          /\ local \notin cursor_get("IndirectlyMutable", qualifs.indirectly_mutable)
          /\ LazySeek("NeedsDrop", qualifs, local, location)
    /\ \E Q \in Qualifs, local \in BodyLocals(body), location \in Locations(body) :
          /\ local \in results["IndirectlyMutable"][location.block][location.statement_index]
          /\ ~in_any_value_of_ty(Q, body.local_decls[local + 1].ty)
          /\ ~LazySeek(Q, qualifs, local, location)

(***************************************************************************)
(* Claims about check_body (checked under Spec).                           *)
(***************************************************************************)
\* check_body returned from the min_const_fn pre-check
EarlyReturn == use_min_const_fn_checks(item) /\ item.min_const_fn_err

\* the walk is past the node at a location of a block that is not cleanup
Visited(location) ==
    /\ location.block \in Blocks(body)
    /\ ~BlockData(body, location.block).is_cleanup
    /\ \/ pc = "check_sync"
       \/ pc = "done" /\ ~EarlyReturn
       \/ /\ pc = "visit_body"
          /\ \/ location.block < at.block
             \/ /\ location.block = at.block
                /\ location.statement_index < at.statement_index

Outcomes == {checks[i].outcome : i \in DOMAIN checks}

\* C6 (escape-hatch gate): every call of check_op_spanned has exactly one
\* of three outcomes: no diagnostic if and only if the operation is allowed
\* in the item; a warning if and only if it is not allowed, is supported by
\* the interpreter, has no feature gate and the override is on; an error in
\* every other case.
C6_EscapeHatchGate ==
    \A i \in DOMAIN checks :
       LET c == checks[i]
           allowed == c.op \in item.allowed
           downgraded == /\ c.op \notin item.unsupported
                         /\ c.op \notin item.gated
                         /\ item.unleash
       IN  /\ c.outcome \in {"none", "warning", "error"}
           /\ c.outcome = "none" <=> allowed
           /\ c.outcome = "warning" <=> ~allowed /\ downgraded
           /\ c.outcome = "error" <=> ~allowed /\ ~downgraded

\* one run of check_body in which the gate had each of the three outcomes
C6_Witness == pc = "done" /\ Outcomes = {"none", "warning", "error"}

\* the operation a statement asks to check whatever the state of the walk
AsksAlways(statement) ==
    CASE statement.s = "FakeRead" /\ statement.cause = "ForMatchedPlace" -> "IfOrMatch"
      [] /\ statement.s = "Assign"
         /\ statement.rvalue.rv = "NullaryOp"
         /\ statement.rvalue.op = "Box" -> "HeapAllocation"
      [] OTHER -> ""

\* the locations of the statements of the blocks that are not cleanup
WalkedStatements ==
    {l \in Locations(body) :
       /\ ~BlockData(body, l.block).is_cleanup
       /\ l.statement_index < Len(BlockData(body, l.block).statements)}

StatementAt(l) == BlockData(body, l.block).statements[l.statement_index + 1]

\* C7 (diagnostics do not abort the walk): whatever was reported before,
\* every statement of a block that is not cleanup is checked once the walk
\* is past it, so that after the walk each of the k statements that ask for
\* a check has its own check.
C7_WalkContinues ==
    \A l \in WalkedStatements :
       (Visited(l) /\ AsksAlways(StatementAt(l)) # "") =>
          \E i \in DOMAIN checks :
             /\ checks[i].at = l
             /\ checks[i].op = AsksAlways(StatementAt(l))

\* after the walk, errors were reported for two statements, and a third
\* statement after them was checked as well
C7_Witness ==
    /\ pc = "done"
    /\ \E i, j, k \in DOMAIN checks :
          /\ i < j /\ j < k
          /\ checks[i].outcome = "error" /\ checks[j].outcome = "error"
          /\ checks[i].at # NoLocation
          /\ checks[i].at # checks[j].at /\ checks[j].at # checks[k].at

LoopChecks == {i \in DOMAIN checks : checks[i].op = "Loop"}

\* C8 (loop rejection), as claimed: check_body on a body whose control-flow
\* graph has a cycle, reachable or not, reports the Loop diagnostic.
C8_LoopRejected ==
    (pc = "done" /\ is_cfg_cyclic(body)) =>
       \E i \in LoopChecks : checks[i].outcome = "error"

\* C8, amended: unless check_body returned from the min_const_fn pre-check,
\* it checks the Loop operation at the span of the body exactly when the
\* control-flow graph has a cycle, reachable or not; the check goes through
\* the gate, so the Loop error is reported unless Loop is allowed in the
\* item or the override downgrades it to a warning.
C8_LoopChecked ==
    /\ pc \in {"visit_body", "check_sync"} \/ (pc = "done" /\ ~EarlyReturn) =>
         /\ (LoopChecks # {}) <=> is_cfg_cyclic(body)
         /\ \A i \in LoopChecks :
              /\ i = 1
              /\ checks[i].span = BodySpan
              /\ checks[i].outcome = "error" <=>
                    /\ "Loop" \notin item.allowed
                    /\ ~(item.unleash /\ "Loop" \notin item.unsupported
                                      /\ "Loop" \notin item.gated)
    /\ (pc = "done" /\ EarlyReturn) => LoopChecks = {}

\* a loop that no path from the entry block reaches
UnreachableLoop ==
    /\ is_cfg_cyclic(body)
    /\ \A bb \in reachable_from(body, {0}) :
         bb \notin reachable_from(body, successors(BlockData(body, bb).terminator))

\* check_body has reported the Loop error for a loop that cannot be reached
C8_Witness ==
    /\ pc = "done"
    /\ UnreachableLoop
    /\ \E i \in LoopChecks : checks[i].outcome = "error"

MinConstFnViolations == {i \in DOMAIN emitted : emitted[i].diag = "min_const_fn_violation"}

\* C9 (the min_const_fn pre-check short-circuits): for a min_const_fn that
\* breaks the restricted rules, with the override off, check_body emits that
\* violation and nothing else and returns: no short-circuit check, no loop
\* check, no walk (no check, no cursor moved, no span set), no Sync check;
\* with the override on the pre-check is not made and check_body runs on.
C9_MinConstFnShortCircuits ==
    /\ (item.is_min_const_fn /\ ~item.unleash /\ item.min_const_fn_err
          /\ pc # "min_const_fn") =>
         /\ pc = "done"
         /\ emitted = <<Diag("min_const_fn_violation", MinConstFnSpan)>>
         /\ checks = <<>>
         /\ at = Location(0, 0)
         /\ span = BodySpan
         /\ qualifs = NewQualifs
    /\ item.unleash =>
         /\ MinConstFnViolations = {}
         /\ pc = "done" => at.block = Len(body.basic_blocks)

\* check_body returned from the pre-check of an item for which each of the
\* steps left out would have reported something
C9_Witness ==
    /\ pc = "done"
    /\ item.is_min_const_fn /\ ~item.unleash /\ item.min_const_fn_err
    /\ item.control_flow_destroyed /\ item.has_vars
    /\ "Loop" \notin item.allowed
    /\ is_cfg_cyclic(body)
    /\ \E l \in WalkedStatements : AsksAlways(StatementAt(l)) # ""
    /\ Len(emitted) = 1

\* the locations of the assignments of a mutable or unique borrow that is
\* not a reborrow
MutBorrows ==
    {l \in WalkedStatements :
       /\ StatementAt(l).s = "Assign"
       /\ StatementAt(l).rvalue.rv = "Ref"
       /\ StatementAt(l).rvalue.kind \in {"Mut", "Unique"}
       /\ ~place_as_reborrow(body.local_decls, StatementAt(l).rvalue.place).some}

MutBorrowChecksAt(l) == {i \in DOMAIN checks : checks[i].at = l /\ checks[i].op = "MutBorrow"}

\* the borrow is of a place whose type is an array or a slice
OfArrayOrSlice(l) ==
    place_ty(body.local_decls, StatementAt(l).rvalue.place).k \in {"Array", "Slice"}

\* C10 (mutable borrow rule): a Ref of kind Mut or Unique that is not a
\* reborrow is checked as MutBorrow, once, unless the type of the borrowed
\* place is an array or a slice and the item is a mutable static; so, where
\* MutBorrow is not allowed and the override is off, the borrow of an array
\* local is an error in a static and asks for no check in a mutable static.
C10_MutBorrowRule ==
    \A l \in MutBorrows :
       Visited(l) =>
          /\ IF OfArrayOrSlice(l) /\ item.const_kind = "StaticMut"
             THEN MutBorrowChecksAt(l) = {}
             ELSE Cardinality(MutBorrowChecksAt(l)) = 1
          /\ (/\ OfArrayOrSlice(l)
              /\ StatementAt(l).rvalue.place.projection = <<>>
              /\ "MutBorrow" \notin item.allowed
              /\ ~item.unleash) =>
                /\ item.const_kind = "Static" =>
                     \E i \in MutBorrowChecksAt(l) : checks[i].outcome = "error"
                /\ item.const_kind = "StaticMut" =>
                     \A i \in DOMAIN checks : checks[i].at # l

\* the mutable borrow of an array local has been visited in a mutable
\* static and nothing was checked
C10_Witness ==
    /\ pc = "done"
    /\ item.const_kind = "StaticMut"
    /\ \E l \in MutBorrows :
          /\ OfArrayOrSlice(l)
          /\ StatementAt(l).rvalue.kind = "Mut"
          /\ StatementAt(l).rvalue.place.projection = <<>>
    /\ checks = <<>>

\* the locations of the assignments of a shared or shallow borrow that is
\* not a reborrow
SharedBorrows ==
    {l \in WalkedStatements :
       /\ StatementAt(l).s = "Assign"
       /\ StatementAt(l).rvalue.rv = "Ref"
       /\ StatementAt(l).rvalue.kind \in {"Shared", "Shallow"}
       /\ ~place_as_reborrow(body.local_decls, StatementAt(l).rvalue.place).some}

\* HasMutInterior holds for the place at the location: in_place over the
\* locals whose dataflow answer there is true
HasMutInteriorAt(place, l) ==
    in_place("HasMutInterior", body.local_decls,
             {local \in Locals(body.local_decls) : PathSensitive("HasMutInterior", local, l)},
             place)

\* the locations of the assignments of a new UnsafeCell to a local
CellConstructions ==
    {l \in WalkedStatements :
       /\ StatementAt(l).s = "Assign"
       /\ StatementAt(l).place.projection = <<>>
       /\ StatementAt(l).rvalue = NewCell}

\* C11 (shared borrow rule): a Ref of kind Shared or Shallow that is not a
\* reborrow is checked as MutBorrow if and only if HasMutInterior holds for
\* the borrowed place at the location of the rvalue; the construction of an
\* UnsafeCell asks for no check, qualifies as HasMutInterior and sets the bit
\* of the local it is assigned to.
C11_SharedBorrowRule ==
    /\ \A l \in SharedBorrows :
          Visited(l) =>
             (MutBorrowChecksAt(l) # {} <=> HasMutInteriorAt(StatementAt(l).rvalue.place, l))
    /\ \A l \in CellConstructions :
          /\ Visited(l) => \A i \in DOMAIN checks : checks[i].at # l
          /\ in_rvalue("HasMutInterior", body.local_decls, {}, StatementAt(l).rvalue)
          /\ StatementAt(l).place.local
                \in results["HasMutInterior"][l.block][l.statement_index + 1]

\* an UnsafeCell was built without a check and its shared borrow in the
\* next statement was checked as MutBorrow
C11_Witness ==
    /\ pc = "done"
    /\ \E l \in CellConstructions :
          /\ Location(l.block, l.statement_index + 1) \in SharedBorrows
          /\ MutBorrowChecksAt(Location(l.block, l.statement_index + 1)) # {}
          /\ \A i \in DOMAIN checks : checks[i].at # l

\* the locations of the terminators of the blocks that are not cleanup
WalkedTerminators ==
    {terminator_loc(body, bb) : bb \in {b \in Blocks(body) : ~BlockData(body, b).is_cleanup}}

TerminatorAt(l) == BlockData(body, l.block).terminator

\* the operations checked for the node at a location, in order
RECURSIVE OpsAt(_, _)
OpsAt(l, i) ==
    IF i > Len(checks) THEN <<>>
    ELSE (IF checks[i].at = l THEN <<checks[i].op>> ELSE <<>>) \o OpsAt(l, i + 1)

\* the calls of a function item that is not an intrinsic
FnItemCalls ==
    {l \in WalkedTerminators :
       /\ TerminatorAt(l).t = "Call"
       /\ operand_ty(body.local_decls, TerminatorAt(l).func).k = "FnDef"
       /\ ~FnDefInfo(operand_ty(body.local_decls, TerminatorAt(l).func).name).intrinsic}

CalleeAt(l) == FnDefInfo(operand_ty(body.local_decls, TerminatorAt(l).func).name)

\* C12 (call classification), as claimed: a call of a const fn is not
\* checked, and every call of a function that is not a const fn is checked
\* exactly once: as Panic for the panic lang item, otherwise as
\* FnCallUnstable for an unstable const fn whose feature the span of the call
\* does not allow, otherwise as FnCallNonConst.
C12_CallClassification ==
    \A l \in FnItemCalls :
       Visited(l) =>
          OpsAt(l, 1) =
             IF CalleeAt(l).is_const_fn THEN <<>>
             ELSE IF CalleeAt(l).is_lang_panic_fn THEN <<"Panic">>
             ELSE IF CalleeAt(l).is_unstable_const_fn
                       /\ ~TerminatorAt(l).allow_internal_unstable
                  THEN <<"FnCallUnstable">>
             ELSE <<"FnCallNonConst">>

\* C12, amended: a call of a const fn is not checked; a call of a function
\* that is not a const fn is checked once as Panic for the panic lang item;
\* otherwise, for an unstable const fn, once as FnCallUnstable if the span of
\* the call does not allow the feature and not at all if it does; otherwise
\* once as FnCallNonConst.
C12_CallClassificationExempt ==
    \A l \in FnItemCalls :
       Visited(l) =>
          OpsAt(l, 1) =
             IF CalleeAt(l).is_const_fn THEN <<>>
             ELSE IF CalleeAt(l).is_lang_panic_fn THEN <<"Panic">>
             ELSE IF CalleeAt(l).is_unstable_const_fn
                  THEN (IF TerminatorAt(l).allow_internal_unstable THEN <<>>
                        ELSE <<"FnCallUnstable">>)
             ELSE <<"FnCallNonConst">>

\* the call of an unstable const fn at a span that allows its feature has
\* been visited and nothing was checked
C12_Witness ==
    /\ pc = "done"
    /\ \E l \in FnItemCalls :
          /\ CalleeAt(l).is_unstable_const_fn
          /\ TerminatorAt(l).allow_internal_unstable
          /\ OpsAt(l, 1) = <<>>

\* the places whose projections the visit of a statement walks in a mutating
\* context: the place assigned or whose discriminant is set, and a place
\* borrowed mutably (below the outermost Deref for a reborrow)
MutatingPlaces(statement) ==
    CASE statement.s = "Assign" ->
           <<statement.place>>
             \o (IF statement.rvalue.rv = "Ref" /\ statement.rvalue.kind = "Mut"
                 THEN LET reborrow == place_as_reborrow(body.local_decls,
                                                        statement.rvalue.place)
                      IN  <<IF reborrow.some
                            THEN Place(statement.rvalue.place.local, reborrow.inner)
                            ELSE statement.rvalue.place>>
                 ELSE <<>>)
      [] statement.s = "SetDiscriminant" -> <<statement.place>>
      [] OTHER -> <<>>

\* the dereference of the raw-pointer local that stands for a named static
OfStaticRef(place, i) ==
    /\ i = 1
    /\ body.local_decls[place.local + 1].static_ref
    /\ body.local_decls[place.local + 1].ty.k = "RawPtr"

Derefs(place) == {i \in DOMAIN place.projection : place.projection[i] = Deref}

RECURSIVE SumDerefs(_, _)
SumDerefs(places, static_too) ==
    IF places = <<>> THEN 0
    ELSE Cardinality({i \in Derefs(Head(places)) :
                         static_too \/ ~OfStaticRef(Head(places), i)})
           + SumDerefs(Tail(places), static_too)

MutDerefChecksAt(l) == {i \in DOMAIN checks : checks[i].at = l /\ checks[i].op = "MutDeref"}

\* C13 (mutating dereference): every Deref element of a projection visited
\* in a mutating context is checked as MutDeref, whatever is dereferenced: a
\* reference, a raw pointer or the raw-pointer local that stands for a named
\* static.
C13_MutDerefAnyPointer ==
    \A l \in WalkedStatements :
       Visited(l) =>
          Cardinality(MutDerefChecksAt(l)) = SumDerefs(MutatingPlaces(StatementAt(l)), TRUE)

\* what the validator does: the Deref elements visited in a mutating context
\* are checked as MutDeref one for one, except the dereference of the
\* raw-pointer local of a named static, whose visit ends with the static
\* access check
MutDerefUnlessStatic ==
    \A l \in WalkedStatements :
       Visited(l) =>
          Cardinality(MutDerefChecksAt(l)) = SumDerefs(MutatingPlaces(StatementAt(l)), FALSE)

\* a store through a reference is checked as MutDeref, and a store through
\* the pointer of a static has been visited without one
C13_Witness ==
    /\ \E l \in WalkedStatements :
          /\ Visited(l)
          /\ MutDerefChecksAt(l) # {}
    /\ \E l \in WalkedStatements :
          /\ Visited(l)
          /\ MutDerefChecksAt(l) = {}
          /\ SumDerefs(MutatingPlaces(StatementAt(l)), TRUE) > 0
          /\ \E i \in DOMAIN checks :
                checks[i].at = l /\ checks[i].op \in {"StaticAccess", "ThreadLocalAccess"}

Drops == {l \in WalkedTerminators : TerminatorAt(l).t \in {"Drop", "DropAndReplace"}}

LiveDropChecksAt(l) == {i \in DOMAIN checks : checks[i].at = l /\ checks[i].op = "LiveDrop"}

\* exactly one LiveDrop is checked for the terminator at l, at span sp
OneLiveDropAt(l, sp) ==
    /\ Cardinality(LiveDropChecksAt(l)) = 1
    /\ \A i \in LiveDropChecksAt(l) : checks[i].span = sp

\* C14 (drop rule): for a Drop or DropAndReplace nothing is checked when the
\* declared type of the dropped place never needs drop; otherwise a bare
\* local is checked as LiveDrop at the span of its declaration exactly when
\* the path-sensitive NeedsDrop answer for it before the terminator is true,
\* and a place with a projection is always checked as LiveDrop at the span
\* of the terminator.
C14_DropRule ==
    \A l \in Drops :
       Visited(l) =>
          LET dropped_place == TerminatorAt(l).location
          IN  IF ~needs_drop(place_ty(body.local_decls, dropped_place))
              THEN LiveDropChecksAt(l) = {}
              ELSE IF dropped_place.projection = <<>>
              THEN IF PathSensitive("NeedsDrop", dropped_place.local, l)
                   THEN OneLiveDropAt(l, DeclSpan(dropped_place.local))
                   ELSE LiveDropChecksAt(l) = {}
              ELSE OneLiveDropAt(l, SourceInfoSpan(l))

\* the drop of a local whose value was moved out before it has been visited
\* without a check although the type of the local needs drop
C14_Witness ==
    \E l \in Drops :
       /\ Visited(l)
       /\ TerminatorAt(l).location.projection = <<>>
       /\ needs_drop(place_ty(body.local_decls, TerminatorAt(l).location))
       /\ ~PathSensitive("NeedsDrop", TerminatorAt(l).location.local, l)
       /\ LiveDropChecksAt(l) = {}
       /\ l.statement_index = 2

\* the statements that borrow the target of a reference held in a local that
\* does not stand for a static
Reborrows ==
    {l \in WalkedStatements :
       /\ StatementAt(l).s = "Assign"
       /\ StatementAt(l).rvalue.rv = "Ref"
       /\ LET place == StatementAt(l).rvalue.place
              n == Len(place.projection)
          IN  /\ n > 0
              /\ place.projection[n] = Deref
              /\ ~body.local_decls[place.local + 1].static_ref
              /\ ty_from(body.local_decls, place.local,
                         SubSeq(place.projection, 1, n - 1)).k = "Ref"}

\* the place of the reference that a reborrow at l dereferences
Reborrowed(l) ==
    LET place == StatementAt(l).rvalue.place
    IN  Place(place.local, SubSeq(place.projection, 1, Len(place.projection) - 1))

\* the operations checked for the node at a location with their spans, in
\* order
RECURSIVE ChecksAt(_, _)
ChecksAt(l, i) ==
    IF i > Len(checks) THEN <<>>
    ELSE (IF checks[i].at = l THEN <<CheckOp(checks[i].op, checks[i].span)>> ELSE <<>>)
           \o ChecksAt(l, i + 1)

\* C15 (validator reborrow): a Ref of any kind of the Deref of a reference
\* held in a local that is not a reference to a static is visited as a use
\* of that reference: the checks are those of the assigned place and of the
\* place of the reference in the context of the borrow kind; no MutBorrow is
\* checked and the outermost Deref is not checked.
C15_ValidatorReborrow ==
    \A l \in Reborrows :
       Visited(l) =>
          LET kind == StatementAt(l).rvalue.kind
              cx == body.local_decls
          IN  /\ ChecksAt(l, 1)
                   = visit_place(cx, StatementAt(l).place, MutatingUse("Store"),
                                 SourceInfoSpan(l))
                       \o visit_place(cx, Reborrowed(l), borrow_context(kind),
                                      SourceInfoSpan(l))
              /\ \A i \in DOMAIN checks : checks[i].at = l => checks[i].op # "MutBorrow"
              /\ Cardinality(MutDerefChecksAt(l))
                   = Cardinality(Derefs(StatementAt(l).place))
                       + (IF kind = "Mut" THEN Cardinality(Derefs(Reborrowed(l))) ELSE 0)

\* a mutable reborrow through two references has been visited: the inner
\* Deref alone is checked as MutDeref
C15_Witness ==
    \E l \in Reborrows :
       /\ Visited(l)
       /\ StatementAt(l).rvalue.kind = "Mut"
       /\ Len(StatementAt(l).rvalue.place.projection) = 2
       /\ Cardinality(MutDerefChecksAt(l)) = 1

\* the locations of the checks of the statements that always ask for one, in
\* the order of the checks
RECURSIVE AskedFrom(_)
AskedFrom(i) ==
    IF i > Len(checks) THEN <<>>
    ELSE (IF checks[i].op \in {"IfOrMatch", "HeapAllocation"} THEN <<checks[i].at>>
          ELSE <<>>) \o AskedFrom(i + 1)

\* the locations the walk is past of the statements that always ask for a
\* check, from statement i of block bb on in the order of the blocks
RECURSIVE AskingFrom(_, _)
AskingFrom(bb, i) ==
    IF bb >= Len(body.basic_blocks) THEN <<>>
    ELSE IF i >= Len(BlockData(body, bb).statements) THEN AskingFrom(bb + 1, 0)
    ELSE (IF /\ Visited(Location(bb, i))
             /\ AsksAlways(BlockData(body, bb).statements[i + 1]) # ""
          THEN <<Location(bb, i)>> ELSE <<>>) \o AskingFrom(bb, i + 1)

InCleanup(bb) == bb \in Blocks(body) /\ BlockData(body, bb).is_cleanup

\* C16 (cleanup blocks): no check is made for a node of a cleanup block and
\* no span is taken from one, and the statements of the other blocks are
\* visited once each in the order of the blocks.
C16_CleanupSkipped ==
    /\ \A i \in DOMAIN checks :
          /\ ~InCleanup(checks[i].at.block)
          /\ checks[i].span.sp = "source_info" => ~InCleanup(checks[i].span.block)
    /\ span.sp = "source_info" => ~InCleanup(span.block)
    /\ AskedFrom(1) = AskingFrom(0, 0)

\* the walk has ended on a body with a cleanup block between two blocks that
\* were checked, the cleanup block holding a statement that asks for a check
C16_Witness ==
    /\ pc = "done"
    /\ Len(AskedFrom(1)) >= 2
    /\ \E bb \in Blocks(body) :
          /\ InCleanup(bb)
          /\ \E i \in DOMAIN BlockData(body, bb).statements :
                AsksAlways(BlockData(body, bb).statements[i]) # ""
          /\ \E j, k \in DOMAIN checks :
                checks[j].at.block < bb /\ bb < checks[k].at.block

\* the checks made through check_op: LiveDrop and the access to a static are
\* checked through check_op_spanned with a span of their own
ThroughCheckOp(i) ==
    /\ checks[i].at # NoLocation
    /\ checks[i].op \notin {"LiveDrop", "StaticAccess", "ThreadLocalAccess"}

\* C18 (span attribution): a check made through check_op while a statement
\* or terminator is visited is made with the span of that very statement or
\* terminator, whatever the kind of the statement, a FakeRead of a matched
\* place included.
C18_SpanAttribution ==
    \A i \in DOMAIN checks :
       ThroughCheckOp(i) => checks[i].span = SourceInfoSpan(checks[i].at)

\* a FakeRead of a matched place has been checked with the span of the
\* statement before it
C18_Witness ==
    \E i \in DOMAIN checks :
       /\ ThroughCheckOp(i)
       /\ checks[i].op = "IfOrMatch"
       /\ checks[i].at.statement_index > 0
       /\ checks[i].span
            = SourceInfoSpan(Location(checks[i].at.block, checks[i].at.statement_index - 1))

=============================================================================
